---- MODULE Spec2Model ----
(***************************************************************************)
(* Model of the FinHub portfolio-optimisation service:                     *)
(*   src/api/app.py             the FastAPI handlers and the background    *)
(*                              training task, sharing module globals      *)
(*   src/api/portfolio_model.py prepare_data_pipeline, PortfolioOptimizer  *)
(*                                                                         *)
(* All handlers are `async def` and contain no await, and the background   *)
(* training task is an `async def` without await as well: each runs on the *)
(* single event loop without yielding.  A handler therefore executes only  *)
(* while no background task is between its first and last statement        *)
(* (pc = "idle").  The background task of a request runs after the         *)
(* response of that request has been sent (`await send`), so accepted      *)
(* tasks wait in background_tasks until the loop picks them up.            *)
(***************************************************************************)
EXTENDS Integers, Sequences, FiniteSets, TLC

\* ------------------------------------------------------------------ bounds
MaxRuns == 2          \* accepted training runs per behaviour
MaxEpochs == 2        \* largest num_epochs explored
MaxPatience == 2      \* largest early_stopping_patience explored (SpecTrain)
MaxLoss == 1          \* finite validation losses are 0..MaxLoss

\* --------------------------------------------------------- program constants
TOP_STOCKS == <<"AAPL", "MSFT", "AMZN", "GOOGL", "META", "TSLA", "BRK-B", "JPM", "JNJ", "V">>

AppPatience == 10     \* early_stopping_patience passed by train_model_background

InclusionThreshold == 1   \* 0.001 in thousandths: weights[i] > 0.001

\* ------------------------------------------------------------------ values
None == [none |-> TRUE]

NaN == 0 - 1              \* float('nan'): every comparison with it is False
Inf == MaxLoss + 1        \* float('inf')
LossValues == (0..MaxLoss) \cup {NaN}

\* Python's `a < b` on floats
FloatLess(a, b) == a # NaN /\ b # NaN /\ a < b

Range(s) == {s[i] : i \in DOMAIN s}

\* Python's `x in list`
Contains(s, x) == \E i \in DOMAIN s : s[i] = x

\* Python's list.index(x): the first position holding x
IndexOf(s, x) == CHOOSE i \in DOMAIN s : s[i] = x /\ \A j \in 1..(i - 1) : s[j] # x

\* F(e), with e evaluated once however often F uses it
With(e, F(_)) == CHOOSE r \in {F(v) : v \in {e}} : TRUE

\* [x for x in s if x in keep], the order of s preserved
Filter(s, keep) == SelectSeq(s, LAMBDA x : x \in keep)

\* the elements of s, each at its first position
RECURSIVE Dedupe(_)
Dedupe(s) ==
  With(s, LAMBDA a :
    IF a = <<>> THEN <<>>
    ELSE <<a[1]>> \o Dedupe(SelectSeq(Tail(a), LAMBDA x : x # a[1])))

Reverse(s) == With(s, LAMBDA a : [i \in 1..Len(a) |-> a[Len(a) + 1 - i]])

\* ------------------------------------------------- floating-point numbers
\* A float is <<m, e>>, standing for m * 2^e, with m = 0 or
\* 2^(MantissaBits-1) <= |m| < 2^MantissaBits.  numpy's float64 and torch's
\* float32 carry 53 and 24 bits; the model carries MantissaBits, the most
\* whose products fit the checker's integers, and rounds every operation to
\* nearest (ties to even) as IEEE arithmetic does.
MantissaBits == 15

Pow2(k) == 2 ^ k

BitLen4(x) == IF x < 4 THEN (IF x < 2 THEN 1 ELSE 2) ELSE (IF x < 8 THEN 3 ELSE 4)
BitLen8(x) == IF x < 16 THEN BitLen4(x) ELSE 4 + BitLen4(x \div 16)
BitLen16(x) == IF x < 256 THEN BitLen8(x) ELSE 8 + BitLen8(x \div 256)

\* the number of binary digits of m > 0
BitLen(m) == IF m < 65536 THEN BitLen16(m) ELSE 16 + BitLen16(m \div 65536)

FZero == <<0, 0>>

\* m * 2^e rounded to a float
FNorm(m, e) ==
  IF m = 0 THEN FZero
  ELSE LET a == IF m < 0 THEN 0 - m ELSE m
           sgn == IF m < 0 THEN 0 - 1 ELSE 1
           k == BitLen(a) - MantissaBits
       IN  IF k <= 0 THEN <<m * Pow2(0 - k), e + k>>
           ELSE LET q == a \div Pow2(k)
                    rem == a % Pow2(k)
                    half == Pow2(k - 1)
                    r == IF rem > half \/ (rem = half /\ q % 2 = 1) THEN q + 1 ELSE q
                IN  IF r = Pow2(MantissaBits)
                      THEN <<sgn * Pow2(MantissaBits - 1), e + k + 1>>
                      ELSE <<sgn * r, e + k>>

FInt(k) == FNorm(k, 0)

FNeg(x) == With(x, LAMBDA a : <<0 - a[1], a[2]>>)

FAdd(x, y) ==
  With(x, LAMBDA a : With(y, LAMBDA b :
    IF a[1] = 0 THEN b
    ELSE IF b[1] = 0 THEN a
    ELSE LET hi == IF a[2] >= b[2] THEN a ELSE b
             lo == IF a[2] >= b[2] THEN b ELSE a
             d == hi[2] - lo[2]
         IN  IF d > MantissaBits THEN hi
             ELSE FNorm(hi[1] * Pow2(d) + lo[1], lo[2])))

FSub(x, y) == FAdd(x, FNeg(y))

FMul(x, y) == With(x, LAMBDA a : With(y, LAMBDA b : FNorm(a[1] * b[1], a[2] + b[2])))

\* x / y for y # 0
FDiv(x, y) ==
  With(x, LAMBDA p : With(y, LAMBDA q :
    LET a == IF p[1] < 0 THEN 0 - p[1] ELSE p[1]
        b == IF q[1] < 0 THEN 0 - q[1] ELSE q[1]
        sgn == IF (p[1] < 0) = (q[1] < 0) THEN 1 ELSE 0 - 1
    IN  FNorm(sgn * ((a * Pow2(MantissaBits + 1)) \div b), p[2] - q[2] - (MantissaBits + 1))))

FRatio(p, q) == FDiv(FInt(p), FInt(q))

FLess(x, y) == FSub(x, y)[1] < 0

FLeq(x, y) == ~FLess(y, x)

FAbs(x) == With(x, LAMBDA a : IF a[1] < 0 THEN FNeg(a) ELSE a)

\* the integer square root of v > 0, by Newton's iteration from above
RECURSIVE ISqrtFrom(_, _)
ISqrtFrom(v, g) ==
  LET h == (g + v \div g) \div 2
  IN  IF h >= g THEN g ELSE ISqrtFrom(v, h)

\* sqrt(x) for x >= 0
FSqrt(x) ==
  With(x, LAMBDA a :
    IF a[1] = 0 THEN FZero
    ELSE LET s == IF a[2] % 2 = 0 THEN MantissaBits - 1 ELSE MantissaBits
         IN  With(ISqrtFrom(a[1] * Pow2(s), Pow2(MantissaBits)),
                  LAMBDA root : FNorm(root, (a[2] - s) \div 2)))

\* a sequence built position by position, every position computed once
Vec(f) == <<>> \o f

\* np.sum of a one-dimensional array shorter than 8: left to right
RECURSIVE FSumTo(_, _)
FSumTo(v, n) == IF n = 0 THEN FZero ELSE FAdd(FSumTo(v, n - 1), v[n])

FSum(v) == With(v, LAMBDA a : FSumTo(a, Len(a)))

FOne == FInt(1)

\* the floats x and y differ by at most tol
FNear(x, y, tol) == FLeq(FAbs(FSub(x, y)), tol)

\* ------------------------------------------------------------------ inputs
SwappedStocks == <<"MSFT", "AAPL", "AMZN", "GOOGL", "META", "TSLA", "BRK-B", "JPM", "JNJ", "V">>
SmallStocks == <<"AAPL", "NVDA">>

\* request.tickers of /set-universal-stocks
UniverseRequests == {TOP_STOCKS, SwappedStocks, SmallStocks}

\* tickers whose price fetch may fail or come back empty
FlakyTickers == {"AAPL", "NVDA"}

\* request.tickers of /predict
PredictRequests == {<<"AAPL", "V">>, <<"AAPL", "ZZZ">>, <<"V">>}

\* request.strategy of /predict
StrategyNames == {"Equal Risk Contribution", "momentum"}

\* request.num_epochs of /train (the field has no lower bound)
EpochRequests == {0, MaxEpochs}

\* ------------------------------------------------------------------- state
VARIABLES
  global_model,            \* app.py global_model: None or the trained model
  global_optimizer,        \* app.py global_optimizer: None or the PortfolioOptimizer
  global_data_tuple,       \* app.py global_data_tuple: None or (returns_dict, features_dict)
  global_top_stocks,       \* app.py global_top_stocks: the universe, a list
  training_status,         \* app.py training_status
  background_tasks,        \* accepted train_model_background tasks not yet started (their num_epochs)
  pc,                      \* position of the running background task, "idle" when none runs
  num_epochs,              \* argument of the running task / of train
  train_loader,            \* the loader prepare_data_pipeline returned: its dataset's columns
  model,                   \* the task's local model (the object optimizer.model refers to)
  val_loader,              \* whether train was given a validation loader
  early_stopping_patience, \* argument of train
  epoch,                   \* epochs of the loop of train run so far
  best_val_loss,           \* train local
  patience_counter,        \* train local
  val_losses,              \* train local: validation loss of every epoch run
  exc,                     \* the exception propagating out of the try block, "" when none
  checkpoint_file,         \* contents of 'best_portfolio_model.pth', None when the file is absent
  response,                \* the response of the handler that ran last
  run,                     \* number of background tasks started so far (identifies a run)
  at_start,                \* the three globals inference reads, as they were when the current run started
  ever_completed,          \* whether some run has completed successfully
  failed_tickers,          \* prepare_data_pipeline local: the tickers whose fetch failed, as printed
  call                     \* a function called on its own: its name, arguments and result

globals == <<global_model, global_optimizer, global_data_tuple, global_top_stocks, training_status>>
task_locals == <<num_epochs, train_loader, model, failed_tickers>>
train_locals == <<val_loader, early_stopping_patience, epoch, best_val_loss, patience_counter, val_losses>>
ghosts == <<run, at_start, ever_completed>>
service == <<globals, background_tasks, pc, task_locals, train_locals, exc, checkpoint_file, response, ghosts>>
vars == <<service, call>>

\* no function is called on its own
NoCall == [fn |-> "none"]

NoResponse == [op |-> "none"]

InitialParams(r) == [run |-> r, epoch |-> 0]

\* ------------------------------------------------- prepare_data_pipeline

\* list(set(returns_dict.keys()).intersection(set(features_dict.keys()))):
\* the iteration order of a set of str depends on the process's hash seed, so
\* the list may come out in the universe's order or in another one.  Two
\* orders are explored: the universe's and its reverse.
SetOrders(valid, tickers) ==
  With(Filter(Dedupe(tickers), valid), LAMBDA inorder : {inorder, Reverse(inorder)})

\* outcome[t] for a flaky ticker t: "ok", "fail" (the fetch raises or returns
\* an empty frame) or "nofeat" (fetched, but calculate_features drops every
\* row); every other ticker is "ok".  history_ok: the aligned dates outnumber
\* window_size.  order: the order list(set) produced.
Outcome(outcome, t) == IF t \in DOMAIN outcome THEN outcome[t] ELSE "ok"

\* mutant of PrepareDataPipeline: one valid ticker is enough
PrepareDataPipeline_OneSuffices(tickers, outcome, history_ok, order) ==
  LET failed == Filter(tickers, {t \in Range(tickers) : Outcome(outcome, t) = "fail"})
      raw_data == Range(tickers) \ Range(failed)
      returns_dict == raw_data
      features_dict == {t \in raw_data : Outcome(outcome, t) # "nofeat"}
      valid_tickers == returns_dict \cap features_dict
      Raise(msg) == [raised |-> TRUE, msg |-> msg, failed_tickers |-> failed,
                     returns_dict |-> {}, features_dict |-> {}, tickers |-> <<>>]
  IN  IF raw_data = {} THEN Raise("No data could be fetched for any ticker")
      ELSE IF returns_dict = {} \/ features_dict = {}
        THEN Raise("No valid returns or features could be calculated")
      ELSE IF Cardinality(valid_tickers) < 1
        THEN Raise("Need at least 2 valid tickers for portfolio optimization")
      ELSE IF ~history_ok THEN Raise("Not enough data for window size")
      ELSE [raised |-> FALSE, msg |-> "", failed_tickers |-> failed,
            returns_dict |-> returns_dict, features_dict |-> features_dict,
            tickers |-> order]

PrepareDataPipeline(tickers, outcome, history_ok, order) ==
  LET failed == Filter(tickers, {t \in Range(tickers) : Outcome(outcome, t) = "fail"})
      raw_data == Range(tickers) \ Range(failed)
      returns_dict == raw_data
      features_dict == {t \in raw_data : Outcome(outcome, t) # "nofeat"}
      valid_tickers == returns_dict \cap features_dict
      Raise(msg) == [raised |-> TRUE, msg |-> msg, failed_tickers |-> failed,
                     returns_dict |-> {}, features_dict |-> {}, tickers |-> <<>>]
  IN  IF raw_data = {} THEN Raise("No data could be fetched for any ticker")
      ELSE IF returns_dict = {} \/ features_dict = {}
        THEN Raise("No valid returns or features could be calculated")
      ELSE IF Cardinality(valid_tickers) < 2
        THEN Raise("Need at least 2 valid tickers for portfolio optimization")
      ELSE IF ~history_ok THEN Raise("Not enough data for window size")
      ELSE [raised |-> FALSE, msg |-> "", failed_tickers |-> failed,
            returns_dict |-> returns_dict, features_dict |-> features_dict,
            tickers |-> order]

\* ------------------------------------------- PortfolioOptimizationModel

\* forward() on a window of `columns` asset columns with a mask of length
\* `masklen`, in a model built for `num_assets`: the loop over
\* range(num_assets) slices column i (an empty or out-of-range slice raises),
\* and asset_embeddings * mask and raw_weights * mask must broadcast.
ForwardOK(num_assets, columns, masklen) ==
  /\ num_assets <= columns
  /\ (masklen = num_assets \/ masklen = 1 \/ num_assets = 1)

\* softmax(raw_weights * mask - 1e10 * (1 - mask)) in thousandths, for a mask
\* as long as the output layer.  The logits are not modelled; two outputs are
\* explored for a mask with active positions: the active positions share the
\* weight equally, or the first active position takes all but a thousandth
\* per other active position.  With no active position every logit is
\* -1e10 and the softmax is uniform over all positions.
ModelOutputs(mask) ==
  LET n == Len(mask)
      active == {i \in 1..n : mask[i] = 1}
      k == Cardinality(active)
      first == CHOOSE i \in active : \A j \in active : i <= j
  IN  IF k = 0
        THEN {[i \in 1..n |-> IF i = 1 THEN 1000 - (n - 1) * (1000 \div n) ELSE 1000 \div n]}
        ELSE {[i \in 1..n |-> IF i \notin active THEN 0
                              ELSE IF i = first THEN 1000 - (k - 1) * (1000 \div k)
                              ELSE 1000 \div k],
              [i \in 1..n |-> IF i \notin active THEN 0
                              ELSE IF i = first THEN 1000 - (k - 1) ELSE 1]}

\* ------------------------------------------------- PortfolioOptimizer.predict

\* the mask predict builds: one entry per ticker of all_tickers = TOP_STOCKS,
\* set at the index of every active ticker found there
PredictMask(active_tickers) ==
  [i \in 1..Len(TOP_STOCKS) |-> IF Contains(active_tickers, TOP_STOCKS[i]) THEN 1 ELSE 0]

\* mutant of PredictPortfolio: every masked-in ticker is included, whatever its weight
PredictPortfolio_NoThreshold(mask, weights) ==
  LET kept == {i \in 1..Len(TOP_STOCKS) : mask[i] > 0}
  IN  [t \in {TOP_STOCKS[i] : i \in kept} |-> weights[IndexOf(TOP_STOCKS, t)]]

\* the dictionary predict returns for the model output `weights`
PredictPortfolio(mask, weights) ==
  LET kept == {i \in 1..Len(TOP_STOCKS) : mask[i] > 0 /\ weights[i] > InclusionThreshold}
  IN  [t \in {TOP_STOCKS[i] : i \in kept} |-> weights[IndexOf(TOP_STOCKS, t)]]

\* ------------------------------------------------------------------ Init
\* the service as the module leaves it when imported
ServiceInit ==
  /\ global_model = None
  /\ global_optimizer = None
  /\ global_data_tuple = None
  /\ global_top_stocks = <<>>
  /\ training_status = "not_started"
  /\ background_tasks = <<>>
  /\ pc = "idle"
  /\ num_epochs = 0
  /\ train_loader = None
  /\ model = None
  /\ val_loader = TRUE
  /\ early_stopping_patience = AppPatience
  /\ epoch = 0
  /\ best_val_loss = Inf
  /\ patience_counter = 0
  /\ val_losses = <<>>
  /\ exc = ""
  /\ checkpoint_file = None
  /\ response = NoResponse
  /\ run = 0
  /\ at_start = <<None, None, None>>
  /\ ever_completed = FALSE
  /\ failed_tickers = <<>>

Init == ServiceInit /\ call = NoCall

\* ------------------------------------------------ POST /set-universal-stocks
\* fails: the tickers whose validation fetch raises or comes back empty
set_universal_stocks(tickers, fails) ==
  LET test_failures == Filter(tickers, fails)
  IN
  /\ pc = "idle"
  /\ IF test_failures # <<>>
       THEN /\ response' = [op |-> "set_universal_stocks", status |-> "warning",
                            failed_tickers |-> test_failures]
            /\ UNCHANGED <<global_top_stocks, training_status>>
       ELSE /\ global_top_stocks' = tickers
            /\ training_status' = "not_started"
            /\ response' = [op |-> "set_universal_stocks", status |-> "success",
                            failed_tickers |-> <<>>]
  /\ UNCHANGED <<global_model, global_optimizer, global_data_tuple, background_tasks, pc,
                 task_locals, train_locals, exc, checkpoint_file, ghosts, call>>

\* ------------------------------------------------------------- POST /train
\* request.batch_size and request.learning_rate reach no state the model
\* keeps: the loaders are built with fixed batch sizes.
train_model(request_num_epochs) ==
  /\ pc = "idle"
  /\ run + Len(background_tasks) < MaxRuns
  /\ IF global_top_stocks = <<>>
       THEN /\ response' = [op |-> "train", status |-> 400,
                            detail |-> "Please set universal stocks first using /set-universal-stocks"]
            /\ UNCHANGED background_tasks
       ELSE IF training_status = "training"
         THEN /\ response' = [op |-> "train", status |-> 400,
                              detail |-> "Training already in progress"]
              /\ UNCHANGED background_tasks
         ELSE /\ background_tasks' = Append(background_tasks, request_num_epochs)
              /\ response' = [op |-> "train", status |-> 200,
                              detail |-> "Training started in background"]
  /\ UNCHANGED <<globals, pc, task_locals, train_locals, exc, checkpoint_file, ghosts, call>>

\* ------------------------------------------------ train_model_background
FetchOutcomes == [FlakyTickers -> {"ok", "fail", "nofeat"}]

RemoveAt(s, i) == SubSeq(s, 1, i - 1) \o SubSeq(s, i + 1, Len(s))

\* The loop starts the task of some answered /train request: its first
\* statement sets the status.
BgStart ==
  /\ pc = "idle"
  /\ \E i \in DOMAIN background_tasks :
       /\ num_epochs' = background_tasks[i]
       /\ background_tasks' = RemoveAt(background_tasks, i)
  /\ training_status' = "training"
  /\ pc' = "prepare"
  /\ run' = run + 1
  /\ at_start' = <<global_model, global_optimizer, global_data_tuple>>
  /\ response' = NoResponse
  /\ UNCHANGED <<global_model, global_optimizer, global_data_tuple, global_top_stocks,
                 train_loader, model, failed_tickers, train_locals, exc, checkpoint_file,
                 ever_completed, call>>

\* prepare_data_pipeline(...) and `global_data_tuple = data_tuple`
BgPrepare ==
  /\ pc = "prepare"
  /\ \E outcome \in FetchOutcomes, history_ok \in BOOLEAN :
       \E order \in SetOrders({t \in Range(global_top_stocks) : Outcome(outcome, t) = "ok"},
                              global_top_stocks) :
         LET r == PrepareDataPipeline(global_top_stocks, outcome, history_ok, order)
         IN  IF r.raised
               THEN /\ exc' = r.msg
                    /\ pc' = "except"
                    /\ failed_tickers' = r.failed_tickers
                    /\ UNCHANGED <<global_data_tuple, train_loader>>
               ELSE /\ global_data_tuple' = [run |-> run, returns_dict |-> r.returns_dict,
                                             features_dict |-> r.features_dict]
                    /\ train_loader' = [tickers |-> r.tickers]
                    /\ failed_tickers' = r.failed_tickers
                    /\ pc' = "init"
                    /\ UNCHANGED exc
  /\ UNCHANGED <<global_model, global_optimizer, global_top_stocks, training_status,
                 background_tasks, num_epochs, model, train_locals, checkpoint_file,
                 response, ghosts, call>>

\* PortfolioOptimizationModel(num_assets=len(global_top_stocks)),
\* PortfolioOptimizer(model), and the entry of optimizer.train up to the
\* loop header.  universe and columns record what the model was built and
\* fed with: the universe at construction, the dataset's column tickers.
BgInit ==
  /\ pc = "init"
  /\ model' = [run |-> run, num_assets |-> Len(global_top_stocks),
               universe |-> global_top_stocks, columns |-> train_loader.tickers,
               params |-> InitialParams(run)]
  /\ val_loader' = TRUE
  /\ early_stopping_patience' = AppPatience
  /\ best_val_loss' = Inf
  /\ patience_counter' = 0
  /\ val_losses' = <<>>
  /\ epoch' = 0
  /\ pc' = IF num_epochs > 0 THEN "epoch" ELSE "load"
  /\ UNCHANGED <<globals, background_tasks, num_epochs, train_loader, failed_tickers, exc,
                 checkpoint_file, response, ghosts, call>>

\* the task returns: its locals and those of train are gone
ResetLocals ==
  /\ num_epochs' = 0
  /\ train_loader' = None
  /\ model' = None
  /\ failed_tickers' = <<>>
  /\ val_loader' = TRUE
  /\ early_stopping_patience' = AppPatience
  /\ epoch' = 0
  /\ best_val_loss' = Inf
  /\ patience_counter' = 0
  /\ val_losses' = <<>>

\* `global_model = model; global_optimizer = optimizer; training_status = "completed"`
BgStore ==
  /\ pc = "store"
  /\ global_model' = model
  /\ global_optimizer' = [model |-> model]
  /\ training_status' = "completed"
  /\ ever_completed' = TRUE
  /\ pc' = "idle"
  /\ ResetLocals
  /\ UNCHANGED <<global_data_tuple, global_top_stocks, background_tasks, exc,
                 checkpoint_file, response, run, at_start, call>>

\* mutant of FailedStatus: a failed run puts the status back to not_started
FailedStatus_NotStarted(msg) == "not_started"

FailedStatus(msg) == "failed: " \o msg

\* mutant of BgExcept: the handler leaves the status as the task set it
BgExcept_LeavesStatus ==
  /\ pc = "except"
  /\ exc' = ""
  /\ pc' = "idle"
  /\ ResetLocals
  /\ UNCHANGED <<global_model, global_optimizer, global_data_tuple, global_top_stocks,
                 training_status, background_tasks, checkpoint_file, response, ghosts, call>>

\* `except Exception as e: training_status = f"failed: {str(e)}"`
BgExcept ==
  /\ pc = "except"
  /\ training_status' = FailedStatus(exc)
  /\ exc' = ""
  /\ pc' = "idle"
  /\ ResetLocals
  /\ UNCHANGED <<global_model, global_optimizer, global_data_tuple, global_top_stocks,
                 background_tasks, checkpoint_file, response, ghosts, call>>

\* ------------------------------------------------ PortfolioOptimizer.train

\* mutant of EarlyStopping: the loop breaks only once the counter exceeds the patience
EarlyStopping_LateBreak(val_loss, best, counter, patience) ==
  IF FloatLess(val_loss, best)
    THEN [best_val_loss |-> val_loss, patience_counter |-> 0, save |-> TRUE, break |-> FALSE]
    ELSE [best_val_loss |-> best, patience_counter |-> counter + 1, save |-> FALSE,
          break |-> counter + 1 > patience]

\* the early-stopping block after an epoch's validation: the new
\* best_val_loss, patience_counter, whether the checkpoint is saved and
\* whether the loop breaks
EarlyStopping(val_loss, best, counter, patience) ==
  IF FloatLess(val_loss, best)
    THEN [best_val_loss |-> val_loss, patience_counter |-> 0, save |-> TRUE, break |-> FALSE]
    ELSE [best_val_loss |-> best, patience_counter |-> counter + 1, save |-> FALSE,
          break |-> counter + 1 >= patience]

\* one pass of `for epoch in range(num_epochs)`: the training batches, then
\* the validation and the early-stopping block
TrainEpoch ==
  /\ pc = "epoch"
  /\ epoch < num_epochs
  /\ IF ~ForwardOK(model.num_assets, Len(train_loader.tickers), Len(train_loader.tickers))
       THEN /\ exc' = "The size of tensor a must match the size of tensor b"
            /\ pc' = "except"
            /\ UNCHANGED <<model, epoch, best_val_loss, patience_counter, val_losses,
                           checkpoint_file>>
       ELSE LET trained == [model EXCEPT !.params = [run |-> model.run, epoch |-> epoch + 1]]
            IN  /\ model' = trained
                /\ epoch' = epoch + 1
                /\ UNCHANGED exc
                /\ IF val_loader
                     THEN \E val_loss \in LossValues :
                            LET es == EarlyStopping(val_loss, best_val_loss, patience_counter,
                                                    early_stopping_patience)
                            IN  /\ val_losses' = Append(val_losses, val_loss)
                                /\ best_val_loss' = es.best_val_loss
                                /\ patience_counter' = es.patience_counter
                                /\ checkpoint_file' =
                                     IF es.save
                                       THEN [params |-> trained.params,
                                             num_assets |-> trained.num_assets]
                                       ELSE checkpoint_file
                                /\ pc' = IF es.break \/ epoch + 1 >= num_epochs
                                           THEN "load" ELSE "epoch"
                     ELSE /\ UNCHANGED <<val_losses, best_val_loss, patience_counter,
                                         checkpoint_file>>
                          /\ pc' = IF epoch + 1 >= num_epochs THEN "load" ELSE "epoch"
  /\ UNCHANGED <<globals, background_tasks, num_epochs, train_loader, failed_tickers,
                 val_loader, early_stopping_patience, response, ghosts, call>>

\* what load_state_dict(torch.load('best_portfolio_model.pth')) does to a
\* model of `m.num_assets` assets: raises when the file is absent or holds a
\* weight_generator of another width, else replaces the parameters
LoadCheckpoint(m, file) ==
  IF file = None
    THEN [raised |-> TRUE, msg |-> "No such file or directory: 'best_portfolio_model.pth'",
          model |-> m]
  ELSE IF file.num_assets # m.num_assets
    THEN [raised |-> TRUE, msg |-> "size mismatch for weight_generator.weight", model |-> m]
  ELSE [raised |-> FALSE, msg |-> "", model |-> [m EXCEPT !.params = file.params]]

\* after the loop: `if val_loader is not None: load_state_dict(...)`, return
TrainLoad ==
  /\ pc = "load"
  /\ IF val_loader
       THEN LET r == LoadCheckpoint(model, checkpoint_file)
            IN  IF r.raised
                  THEN /\ exc' = r.msg
                       /\ pc' = "except"
                       /\ UNCHANGED model
                  ELSE /\ model' = r.model
                       /\ pc' = "store"
                       /\ UNCHANGED exc
       ELSE /\ pc' = "store"
            /\ UNCHANGED <<model, exc>>
  /\ UNCHANGED <<globals, background_tasks, num_epochs, train_loader, failed_tickers,
                 train_locals, checkpoint_file, response, ghosts, call>>

\* ----------------------------------------------------------- POST /predict
strategy_map(name) ==
  IF name = "Maximum Sharpe Ratio" THEN 0
  ELSE IF name = "Minimum Volatility" THEN 1
  ELSE IF name = "Equal Risk Contribution" THEN 2
  ELSE 0

\* the binary_mask predict_portfolio builds (and logs): one entry per
\* universe ticker, 1 when the ticker is requested
binary_mask(tickers) ==
  [i \in 1..Len(global_top_stocks) |-> IF Contains(tickers, global_top_stocks[i]) THEN 1 ELSE 0]

\* strategy_idx: the index handed to optimizer.predict, -1 when it was not called
PredictResponse(status, detail, tickers, strategy_idx, mask, portfolio) ==
  [op |-> "predict", status |-> status, detail |-> detail, tickers |-> tickers,
   strategy_idx |-> strategy_idx, mask |-> mask, portfolio |-> portfolio]

\* the body of the try block of predict_portfolio for the model output
\* `pick` (an element of ModelOutputs, chosen by the trained network): the
\* response it returns or the exception it raises.  request.risk_tolerance
\* reaches only the network's input, whose output is `pick`.
PredictTry(tickers, strategy, pick) ==
  LET invalid_tickers == Filter(tickers, Range(tickers) \ Range(global_top_stocks))
      returns_dict == global_data_tuple.returns_dict
      features_dict == global_data_tuple.features_dict
      mask == PredictMask(tickers)
      outputs == ModelOutputs(mask)
      weights == IF pick \in outputs THEN pick ELSE CHOOSE w \in outputs : TRUE
      strategy_idx == strategy_map(strategy)
      Raised(detail, idx, m) ==
        [raised |-> TRUE, detail |-> detail, strategy_idx |-> idx, mask |-> m,
         portfolio |-> <<>>]
  IN  IF invalid_tickers # <<>> THEN Raised("400: Invalid tickers", 0 - 1, <<>>)
      ELSE IF global_top_stocks = <<>> THEN Raised("list index out of range", 0 - 1, <<>>)
      ELSE IF \E t \in Range(global_top_stocks) : t \notin returns_dict \/ t \notin features_dict
        THEN Raised("KeyError", 0 - 1, <<>>)
      ELSE IF global_optimizer = None
        THEN Raised("'NoneType' object has no attribute 'predict'", 0 - 1, <<>>)
      ELSE IF ~ForwardOK(global_optimizer.model.num_assets, Len(global_top_stocks), Len(mask))
        THEN Raised("The size of tensor a must match the size of tensor b", strategy_idx, mask)
      ELSE IF Len(tickers) = 1
        THEN Raised("matmul: Input operand 1 does not have enough dimensions",
                    strategy_idx, mask)
      ELSE [raised |-> FALSE, detail |-> "", strategy_idx |-> strategy_idx, mask |-> mask,
            portfolio |-> PredictPortfolio(mask, weights)]

\* mutant of ModelNotTrained: the guard consults the status instead of the slots
ModelNotTrained_ByStatus == training_status = "not_started"

\* `if global_model is None or global_optimizer is None`
ModelNotTrained == global_model = None \/ global_optimizer = None

predict_portfolio(tickers, strategy, pick) ==
  /\ pc = "idle"
  /\ IF ModelNotTrained
       THEN response' = PredictResponse(400, "Model not trained yet. Please train the model first.",
                                        tickers, 0 - 1, <<>>, <<>>)
       ELSE IF global_data_tuple = None
         THEN response' = PredictResponse(400, "No training data available", tickers,
                                          0 - 1, <<>>, <<>>)
         ELSE LET r == PredictTry(tickers, strategy, pick)
              IN  IF r.raised
                    THEN response' = PredictResponse(500, r.detail, tickers, r.strategy_idx,
                                                     r.mask, <<>>)
                    ELSE response' = PredictResponse(200, "", tickers, r.strategy_idx,
                                                     r.mask, r.portfolio)
  /\ UNCHANGED <<globals, background_tasks, pc, task_locals, train_locals, exc,
                 checkpoint_file, ghosts, call>>

\* -------------------------------------------------------------- the service
Next ==
  \/ \E tickers \in UniverseRequests, fails \in SUBSET FlakyTickers :
       set_universal_stocks(tickers, fails)
  \/ \E n \in EpochRequests : train_model(n)
  \/ \E tickers \in PredictRequests, strategy \in StrategyNames :
       \E pick \in ModelOutputs(PredictMask(tickers)) : predict_portfolio(tickers, strategy, pick)
  \/ BgStart
  \/ BgPrepare
  \/ BgInit
  \/ TrainEpoch
  \/ TrainLoad
  \/ BgStore
  \/ BgExcept

Spec == Init /\ [][Next]_vars

\* The task is a coroutine without an await: once the event loop has started
\* it, each of its steps follows the one before, and a task the loop holds
\* is started.  Requests are under no obligation to arrive.
FairSpec ==
  /\ Spec
  /\ WF_vars(BgStart)
  /\ WF_vars(BgPrepare)
  /\ WF_vars(BgInit)
  /\ WF_vars(TrainEpoch)
  /\ WF_vars(TrainLoad)
  /\ WF_vars(BgStore)
  /\ WF_vars(BgExcept)

\* ------------------------------------ PortfolioOptimizer.train called directly
\* train(train_loader, val_loader, num_epochs, early_stopping_patience) on a
\* fresh optimizer, for every argument within the bounds, with the
\* checkpoint file absent or left behind by an earlier run.
TrainEpochs == 0..(MaxEpochs + MaxPatience)
PatienceValues == 0..MaxPatience
TrainColumns == <<"AAPL", "MSFT">>
StaleCheckpoints == {None} \cup {[params |-> [run |-> 0, epoch |-> 1], num_assets |-> n] : n \in {2, 3}}

InitTrain ==
  /\ global_model = None
  /\ global_optimizer = None
  /\ global_data_tuple = None
  /\ global_top_stocks = <<>>
  /\ training_status = "not_started"
  /\ background_tasks = <<>>
  /\ num_epochs \in TrainEpochs
  /\ pc = IF num_epochs > 0 THEN "epoch" ELSE "load"
  /\ train_loader = [tickers |-> TrainColumns]
  /\ \E n \in {2, 3} :
       model = [run |-> 1, num_assets |-> n, universe |-> TrainColumns,
                columns |-> TrainColumns, params |-> InitialParams(1)]
  /\ val_loader \in BOOLEAN
  /\ early_stopping_patience \in PatienceValues
  /\ epoch = 0
  /\ best_val_loss = Inf
  /\ patience_counter = 0
  /\ val_losses = <<>>
  /\ exc = ""
  /\ checkpoint_file \in StaleCheckpoints
  /\ response = NoResponse
  /\ run = 1
  /\ at_start = <<None, None, None>>
  /\ ever_completed = FALSE
  /\ failed_tickers = <<>>
  /\ call = NoCall

NextTrain == TrainEpoch \/ TrainLoad

SpecTrain == InitTrain /\ [][NextTrain]_vars

\* ================================================ functions called on their own

\* ------------------------------ PortfolioDataset as the pipeline builds it
MaxOffsets == 2       \* len(valid_start_indices) is 1..MaxOffsets
MaxIndex == 1         \* the indexes asked of a dataset are 0..MaxIndex

\* the keyword arguments of the three PortfolioDataset(...) calls of
\* prepare_data_pipeline (115-140)
Datasets ==
  [train |-> [training |-> TRUE, num_samples |-> 1000],
   val |-> [training |-> TRUE, num_samples |-> 200],
   test |-> [training |-> FALSE, num_samples |-> 100]]

\* the loader each dataset is wrapped in (147-149)
DatasetNames == {"train", "val", "test"}

\* len(valid_tickers) of the datasets explored
DatasetWidths == {2, 3}

\* __len__ of a dataset with `offsets` valid start indices
DatasetLen(dataset, offsets) ==
  IF dataset.training THEN dataset.num_samples ELSE offsets

\* the samples __getitem__(idx) may return, by what determines them: the
\* start index, the active asset indices (0-based, as a set), the strategy
\* and the risk tolerance.  In training mode np.random draws all four.
GetItem(dataset, num_assets, offsets, idx) ==
  IF dataset.training
    THEN {[start_idx |-> start_idx, active_indices |-> active_indices,
           strategy |-> strategy, risk_tolerance |-> risk_tolerance] :
            start_idx \in 0..(offsets - 1),
            active_indices \in {A \in SUBSET (0..(num_assets - 1)) : Cardinality(A) >= 2},
            strategy \in 0..2,
            risk_tolerance \in 1..10}
    ELSE {[start_idx |-> idx, active_indices |-> 0..(num_assets - 1),
           strategy |-> 0, risk_tolerance |-> 5]}

InitDataset ==
  /\ ServiceInit
  /\ call \in {[fn |-> "__getitem__", name |-> name, num_assets |-> num_assets,
                offsets |-> offsets, idx |-> idx, passes |-> 0, samples |-> <<>>] :
                 name \in DatasetNames, num_assets \in DatasetWidths,
                 offsets \in 1..MaxOffsets, idx \in 0..MaxIndex}
  /\ call.idx < DatasetLen(Datasets[call.name], call.offsets)

\* one more pass over the loader reaches index idx
getitem ==
  /\ call.fn = "__getitem__"
  /\ call.passes < 2
  /\ \E sample \in GetItem(Datasets[call.name], call.num_assets, call.offsets, call.idx) :
       call' = [call EXCEPT !.passes = call.passes + 1,
                            !.samples = Append(call.samples, sample)]
  /\ UNCHANGED service

NextDataset == getitem

SpecDataset == InitDataset /\ [][NextDataset]_vars

\* ------------- DataProcessor.align_data_for_multiple_assets (201-228)
MaxDate == 3          \* index labels are 1..MaxDate

\* the tickers a dictionary handed to the alignment may hold
AlignTickers == {"AAPL", "MSFT", "AMZN"}

\* sorted(list(S)) of a set of labels
RECURSIVE Sorted(_)
Sorted(S) ==
  IF S = {} THEN <<>>
  ELSE LET least == CHOOSE x \in S : \A y \in S : x <= y
       IN  <<least>> \o Sorted(S \ {least})

\* labels into an ascending sequence, every label kept: sort_index()
RECURSIVE SortIndex(_)
SortIndex(index) ==
  IF index = <<>> THEN <<>>
  ELSE LET rest == SortIndex(Tail(index))
           before == SelectSeq(rest, LAMBDA d : d < index[1])
           after == SelectSeq(rest, LAMBDA d : d >= index[1])
       IN  before \o <<index[1]>> \o after

\* df.loc[labels] of a frame with a unique index: the rows at the labels, in
\* the order of the labels; a label the index lacks raises KeyError
Loc(df, labels) ==
  IF \E i \in DOMAIN labels : ~Contains(df, labels[i])
    THEN [raised |-> TRUE, rows |-> <<>>]
    ELSE [raised |-> FALSE, rows |-> labels]

\* mutant of CommonDates: the dates of some one frame, not intersected
CommonDates_OneFrame(assets_data) ==
  LET first == CHOOSE t \in DOMAIN assets_data : TRUE
  IN  Range(assets_data[first])

\* the loop of lines 208-215: the intersection of set(df.index) over the frames
CommonDates(assets_data) ==
  {d \in 1..MaxDate : \A t \in DOMAIN assets_data : Contains(assets_data[t], d)}

\* align_data_for_multiple_assets(assets_data) for a dictionary of frames,
\* each frame given by its index
AlignData(assets_data) ==
  LET common_dates == Sorted(CommonDates(assets_data))
      located == [t \in DOMAIN assets_data |-> Loc(assets_data[t], common_dates)]
  IN  IF DOMAIN assets_data = {}
        THEN [raised |-> FALSE, msg |-> "", aligned_data |-> <<>>]
      ELSE IF Len(common_dates) = 0
        THEN [raised |-> TRUE, msg |-> "No common dates found across all assets",
              aligned_data |-> <<>>]
      ELSE IF \E t \in DOMAIN assets_data : located[t].raised
        THEN [raised |-> TRUE, msg |-> "KeyError", aligned_data |-> <<>>]
      ELSE [raised |-> FALSE, msg |-> "",
            aligned_data |-> [t \in DOMAIN assets_data |-> SortIndex(located[t].rows)]]

\* the index of a non-empty frame as the pipeline produces it: ascending,
\* without repetition
Indexes == {Sorted(S) : S \in (SUBSET (1..MaxDate)) \ {{}}}

InitAlign ==
  /\ ServiceInit
  /\ call \in {[fn |-> "align_data_for_multiple_assets", assets_data |-> assets_data,
                done |-> FALSE, raised |-> FALSE, result |-> <<>>] :
                 assets_data \in UNION {[T -> Indexes] : T \in SUBSET AlignTickers}}

align_data_for_multiple_assets ==
  /\ call.fn = "align_data_for_multiple_assets"
  /\ ~call.done
  /\ LET r == AlignData(call.assets_data)
     IN  call' = [call EXCEPT !.done = TRUE, !.raised = r.raised, !.result = r.aligned_data]
  /\ UNCHANGED service

NextAlign == align_data_for_multiple_assets

SpecAlign == InitAlign /\ [][NextAlign]_vars

\* ------------------------------------- forward: the masked softmax (752-759)
MaxLogit == 1         \* ordinary raw logits are the integers -MaxLogit..MaxLogit
NumPositions == 3     \* width of the output layer (num_assets)

\* the 1e10 of `- 1e10 * (1 - mask)`
MaskPenalty == FMul(FInt(100000), FInt(100000))

\* float32's exp gives 0 below -103.98
ExpUnderflow == 104

\* raw_weights[i]: an ordinary logit, or one the penalty does not dominate
ExtremeLogit == FMul(FInt(0 - 2), MaskPenalty)
RawLogits == {FInt(k) : k \in (0 - MaxLogit)..MaxLogit} \cup {ExtremeLogit}

\* the integer a float x >= 0 holds
FToInt(x) == IF x[2] >= 0 THEN x[1] * Pow2(x[2]) ELSE x[1] \div Pow2(0 - x[2])

InvE == FRatio(367879, 1000000)

\* exp(-k) for a natural k
RECURSIVE FExpNeg(_)
FExpNeg(k) == IF k = 0 THEN FOne ELSE FMul(FExpNeg(k - 1), InvE)

\* exp(d) for d <= 0, d an integer when it is above the underflow
FExp(d) == IF FLess(d, FInt(0 - ExpUnderflow)) THEN FZero ELSE FExpNeg(FToInt(FNeg(d)))

RECURSIVE FMaxTo(_, _)
FMaxTo(v, n) ==
  IF n = 1 THEN v[1]
  ELSE LET m == FMaxTo(v, n - 1) IN IF FLess(m, v[n]) THEN v[n] ELSE m

\* torch.softmax(x, dim=1) of one row: exp(x - max(x)) / sum
Softmax(x) ==
  LET n == Len(x)
      mx == FMaxTo(x, n)
      e == Vec([i \in 1..n |-> FExp(FSub(x[i], mx))])
      total == FSum(e)
  IN  Vec([i \in 1..n |-> FDiv(e[i], total)])

\* mutant of MaskedWeights: the penalty of the inactive positions is dropped
MaskedWeights_NoPenalty(raw_weights, mask) ==
  Vec([i \in 1..Len(mask) |-> FMul(raw_weights[i], FInt(mask[i]))])

\* masked_weights = raw_weights * mask - 1e10 * (1 - mask)
MaskedWeights(raw_weights, mask) ==
  Vec([i \in 1..Len(mask) |->
         FSub(FMul(raw_weights[i], FInt(mask[i])),
              FMul(MaskPenalty, FSub(FOne, FInt(mask[i]))))])

\* normalized_weights of forward for one row of raw_weights and mask
MaskedSoftmax(raw_weights, mask) == Softmax(MaskedWeights(raw_weights, mask))

\* --------------------- PortfolioDataset._calculate_target_weights (413-515)

\* np.nan in a return window
FNaN == <<0, 1>>

\* the rows of `returns` without a NaN: returns[~np.isnan(returns).any(axis=1)]
RECURSIVE ValidRows(_)
ValidRows(returns) ==
  IF returns = <<>> THEN <<>>
  ELSE IF \E j \in DOMAIN returns[1] : returns[1][j] = FNaN
    THEN ValidRows(Tail(returns))
    ELSE <<returns[1]>> \o ValidRows(Tail(returns))

\* a @ b of two one-dimensional arrays
Dot(a, b) ==
  With(a, LAMBDA u : With(b, LAMBDA w : FSum(Vec([i \in 1..Len(u) |-> FMul(u[i], w[i])]))))

\* column j of a two-dimensional array
Column(x, j) == Vec([k \in 1..Len(x) |-> x[k][j]])

\* np.mean(x, axis=0) of rows x over n columns
MeanReturns(x, n) == Vec([j \in 1..n |-> FDiv(FSum(Column(x, j)), FInt(Len(x)))])

\* np.ones(n) / n
EqualWeights(n) == With(FDiv(FOne, FInt(n)), LAMBDA share : Vec([i \in 1..n |-> share]))

\* mutant of Normalized: the division by the sum is left out
Normalized_Not(v) == v

\* v / np.sum(v)
Normalized(v) ==
  With(v, LAMBDA a : With(FSum(a), LAMBDA total : Vec([i \in 1..Len(a) |-> FDiv(a[i], total)])))

\* np.cov(x.T) for two or more rows x over n columns: the rows are centred
\* on the column means, and the products are summed and scaled by
\* 1 / (rows - 1).  For n = 1 numpy squeezes the result to a 0-d array.
Cov(x, n) ==
  With(MeanReturns(x, n), LAMBDA mean :
  With(Vec([k \in 1..Len(x) |-> Vec([j \in 1..n |-> FSub(x[k][j], mean[j])])]), LAMBDA centred :
  With(FDiv(FOne, FInt(Len(x) - 1)), LAMBDA scale :
  With(Vec([i \in 1..n |->
         Vec([j \in 1..n |-> FMul(Dot(Column(centred, i), Column(centred, j)), scale)])]),
       LAMBDA c :
    IF n = 1 THEN [ndim |-> 0, value |-> c[1][1]] ELSE [ndim |-> 2, value |-> c]))))

\* np.diag(cov_matrix), which raises on a 0-d array
Diag(cov_matrix) == Vec([i \in 1..Len(cov_matrix.value) |-> cov_matrix.value[i][i]])

\* the 1e-10 of the solver's guards
Tiny == FMul(FRatio(1, 100000), FRatio(1, 100000))

\* mutant of ERCIterations: one pass more
ERCIterations_OneMore == 100 + 1

ERCIterations == 100

\* one pass of the loop of _equal_risk_contribution on the matrix c.  A
\* negative w'cw (possible only by rounding) makes portfolio_vol NaN: every
\* comparison with it is False, so no guard fires and the adjustment stays 1.
ERCStep(c, weights) ==
  LET n == Len(weights) IN
  With(Vec([j \in 1..n |-> Dot(weights, Column(c, j))]), LAMBDA wc :
  With(Dot(wc, weights), LAMBDA variance :
    IF variance[1] < 0 THEN [returned |-> FALSE, weights |-> Normalized(weights)]
    ELSE
  With(FSqrt(variance), LAMBDA portfolio_vol :
    IF FLeq(portfolio_vol, Tiny) THEN [returned |-> TRUE, weights |-> EqualWeights(n)]
    ELSE
  With(Vec([i \in 1..n |-> Dot(c[i], weights)]), LAMBDA cw :
  With(Vec([i \in 1..n |-> FDiv(cw[i], portfolio_vol)]), LAMBDA marginal_contrib :
  With(Vec([i \in 1..n |-> FMul(weights[i], marginal_contrib[i])]), LAMBDA risk_contrib :
  With(FDiv(FSum(risk_contrib), FInt(n)), LAMBDA target_risk :
  With(Vec([i \in 1..n |-> IF FLess(Tiny, risk_contrib[i])
                             THEN FDiv(target_risk, risk_contrib[i])
                             ELSE FOne]), LAMBDA adjustment :
  With(Vec([i \in 1..n |-> FMul(weights[i], adjustment[i])]), LAMBDA adjusted :
    [returned |-> FALSE, weights |-> Normalized(adjusted)])))))))))

\* k passes of `for _ in range(100)` from the loop state s (whether the
\* function has returned, and the weights).  The passes are evaluated in two
\* halves to keep the evaluation shallow; when two passes lead back to s, the
\* passes after them repeat the same two, and only k % 2 are evaluated.
RECURSIVE ERCLoop(_, _, _)
ERCLoop(c, s, k) ==
  IF k = 0 \/ s.returned THEN s
  ELSE IF k = 1 THEN ERCStep(c, s.weights)
  ELSE IF k = 2 THEN With(ERCStep(c, s.weights), LAMBDA t : ERCLoop(c, t, 1))
  ELSE With(ERCLoop(c, s, 2), LAMBDA two :
         IF two = s THEN ERCLoop(c, s, k % 2)
         ELSE With(ERCLoop(c, two, (k - 2) \div 2), LAMBDA half :
                ERCLoop(c, half, (k - 2) - (k - 2) \div 2)))

AllZero(c) == \A i \in DOMAIN c : \A j \in DOMAIN c[i] : c[i][j] = FZero

\* _equal_risk_contribution(cov_matrix): `cov_matrix.shape[0]` raises on a
\* 0-d array
EqualRiskContribution(cov_matrix) ==
  IF cov_matrix.ndim = 0
    THEN [raised |-> TRUE, msg |-> "tuple index out of range", weights |-> <<>>]
  ELSE LET n == Len(cov_matrix.value)
       IN  [raised |-> FALSE, msg |-> "",
            weights |-> IF AllZero(cov_matrix.value) THEN EqualWeights(n)
                        ELSE ERCLoop(cov_matrix.value,
                                     [returned |-> FALSE, weights |-> EqualWeights(n)],
                                     ERCIterations).weights]

\* full_weights: active_weights at the active indices, zeros elsewhere
FullWeights(active_weights, active_indices, num_assets) ==
  Vec([i \in 1..num_assets |->
         IF Contains(active_indices, i) THEN active_weights[IndexOf(active_indices, i)]
         ELSE FZero])

\* mutant of FMaximum: the first argument is returned unclipped
FMaximum_First(x, y) == x

\* np.maximum(x, y) of two floats
FMaximum(x, y) == IF FLess(x, y) THEN y ELSE x

\* the Max-Sharpe branch (strategy == 0) on two or more valid rows
MaxSharpe(valid_returns, risk_tolerance, num_active) ==
  With(MeanReturns(valid_returns, num_active), LAMBDA mean_returns :
  With(Cov(valid_returns, num_active), LAMBDA cov_matrix :
    IF cov_matrix.ndim = 0
      THEN [raised |-> TRUE, msg |-> "Input must be 1- or 2-d.", weights |-> <<>>]
    ELSE
  With(Diag(cov_matrix), LAMBDA diag :
    IF \E i \in 1..num_active : FLeq(diag[i], FZero)
      THEN [raised |-> FALSE, msg |-> "", weights |-> EqualWeights(num_active)]
    ELSE
  With(Vec([i \in 1..num_active |-> FSqrt(diag[i])]), LAMBDA vol :
  With(Vec([i \in 1..num_active |-> FDiv(mean_returns[i], vol[i])]), LAMBDA sharpe :
  With(Vec([i \in 1..num_active |->
              FMul(sharpe[i], FDiv(FInt(risk_tolerance), FInt(5)))]), LAMBDA sharpe_adj :
  With(Vec([i \in 1..num_active |-> FMaximum(sharpe_adj[i], FZero)]), LAMBDA clipped :
    [raised |-> FALSE, msg |-> "",
     weights |->
       IF \E i \in 1..num_active : FLess(FZero, sharpe_adj[i])
         THEN IF FLess(FZero, FSum(clipped)) THEN Normalized(clipped)
              ELSE EqualWeights(num_active)
       ELSE EqualWeights(num_active)])))))))

\* mutant of MinVolBlend: the two blend factors are exchanged
MinVolBlend_Exchanged(active_weights, risk_tolerance, num_active) ==
  LET equal_weights == EqualWeights(num_active)
      risk_factor == FDiv(FInt(risk_tolerance), FInt(10))
  IN  Vec([i \in 1..num_active |->
             FAdd(FMul(risk_factor, active_weights[i]),
                  FMul(FSub(FOne, risk_factor), equal_weights[i]))])

\* (1 - risk_factor) * active_weights + risk_factor * equal_weights
MinVolBlend(active_weights, risk_tolerance, num_active) ==
  LET equal_weights == EqualWeights(num_active)
      risk_factor == FDiv(FInt(risk_tolerance), FInt(10))
  IN  Vec([i \in 1..num_active |->
             FAdd(FMul(FSub(FOne, risk_factor), active_weights[i]),
                  FMul(risk_factor, equal_weights[i]))])

\* the Min-Volatility branch (strategy == 1)
MinVolatility(valid_returns, risk_tolerance, num_active) ==
  With(Cov(valid_returns, num_active), LAMBDA cov_matrix :
    IF cov_matrix.ndim = 0
      THEN [raised |-> TRUE, msg |-> "Input must be 1- or 2-d.", weights |-> <<>>]
    ELSE
  With(Diag(cov_matrix), LAMBDA diag :
  With(Vec([i \in 1..num_active |-> FSqrt(diag[i])]), LAMBDA vol :
  With(IF \E i \in 1..num_active : FLeq(vol[i], FZero)
         THEN EqualWeights(num_active)
         ELSE Normalized(Vec([i \in 1..num_active |-> FDiv(FOne, vol[i])])),
       LAMBDA active_weights :
    [raised |-> FALSE, msg |-> "",
     weights |-> MinVolBlend(active_weights, risk_tolerance, num_active)]))))

\* the Equal-Risk-Contribution branch (else)
RiskParity(valid_returns, risk_tolerance, num_active) ==
  With(Cov(valid_returns, num_active), LAMBDA cov_matrix :
  With(EqualRiskContribution(cov_matrix), LAMBDA erc :
    IF erc.raised \/ risk_tolerance <= 5 THEN erc
    ELSE
  With(MeanReturns(valid_returns, num_active), LAMBDA mean_returns :
  With(FDiv(FSum(mean_returns), FInt(num_active)), LAMBDA average :
  With(FDiv(FInt(risk_tolerance - 5), FInt(5)), LAMBDA skew_factor :
  With(Vec([i \in 1..num_active |->
              FMul(erc.weights[i],
                   IF FLess(average, mean_returns[i]) THEN FAdd(FOne, skew_factor)
                   ELSE FOne)]), LAMBDA skewed :
    [raised |-> FALSE, msg |-> "",
     weights |-> IF FLess(FZero, FSum(skewed)) THEN Normalized(skewed)
                 ELSE EqualWeights(num_active)]))))))

\* _calculate_target_weights(returns, strategy, risk_tolerance, active_indices)
\* of a dataset over num_assets assets: full_weights, or the exception raised
CalculateTargetWeights(returns, strategy, risk_tolerance, active_indices, num_assets) ==
  LET num_active == Len(active_indices) IN
  With(ValidRows(returns), LAMBDA valid_returns :
  With(IF Len(valid_returns) < 2
         THEN [raised |-> FALSE, msg |-> "", weights |-> EqualWeights(num_active)]
       ELSE IF strategy = 0 THEN MaxSharpe(valid_returns, risk_tolerance, num_active)
       ELSE IF strategy = 1 THEN MinVolatility(valid_returns, risk_tolerance, num_active)
       ELSE RiskParity(valid_returns, risk_tolerance, num_active), LAMBDA r :
    IF r.raised THEN [raised |-> TRUE, msg |-> r.msg, full_weights |-> <<>>]
    ELSE [raised |-> FALSE, msg |-> "",
          full_weights |-> FullWeights(r.weights, active_indices, num_assets)]))

\* ---- _calculate_target_weights called on its own
WindowRows == 3       \* rows of a return window (window_size)
MaxActive == 3        \* the dataset's num_assets; windows have 1..MaxActive active assets

\* risk_tolerance: of np.random.randint(1, 11), the least and the greatest
\* value and one on either side of the test `risk_tolerance > 5`
RiskLevels == {1, 5, 8, 10}

\* strategy: np.random.randint(0, 3)
Strategies == 0..2

\* k percent
Percent(k) == FRatio(k, 100)

\* The return series an active asset may show over the window:
\*   1 no move at all (zero variance)     2 rising gains
\*   3 growing losses                     4 a 10% swing up, later down
\*   5 a 40% swing up, later down         6 NaN on the first day, then mixed
\*   7 NaN on every day but the last
SeriesKinds == 1..7

Series(kind) ==
  Vec([k \in 1..WindowRows |->
         IF kind = 1 THEN FZero
         ELSE IF kind = 2 THEN Percent(k)
         ELSE IF kind = 3 THEN Percent(0 - k)
         ELSE IF kind = 4 THEN (IF k = 1 THEN Percent(10) ELSE IF k = 3 THEN Percent(0 - 10) ELSE FZero)
         ELSE IF kind = 5 THEN (IF k = 1 THEN Percent(40) ELSE IF k = 3 THEN Percent(0 - 40) ELSE FZero)
         ELSE IF kind = 6 THEN (IF k = 1 THEN FNaN ELSE IF k % 2 = 0 THEN Percent(2) ELSE Percent(0 - 1))
         ELSE (IF k < WindowRows THEN FNaN ELSE Percent(1))])

\* the window of the active assets showing the series kinds[1..n]: row k
\* holds the k-th return of every active asset
Window(kinds) ==
  Vec([k \in 1..WindowRows |-> Vec([j \in 1..Len(kinds) |-> Series(kinds[j])[k]])])

\* the kinds of 1..MaxActive active assets; the order of the columns only
\* permutes the result, so the kinds are listed in ascending order
WindowKinds ==
  UNION {{kinds \in [1..n -> SeriesKinds] : \A j \in 1..(n - 1) : kinds[j] <= kinds[j + 1]} :
           n \in 1..MaxActive}

\* active_indices: the last n assets, in descending order
ActiveIndices(n) == [j \in 1..n |-> MaxActive + 1 - j]

InitWeights ==
  /\ ServiceInit
  /\ call \in {[fn |-> "_calculate_target_weights", kinds |-> kinds, returns |-> Window(kinds),
                strategy |-> strategy, risk_tolerance |-> risk_tolerance,
                active_indices |-> active_indices, done |-> FALSE, raised |-> FALSE,
                result |-> <<>>] :
                 kinds \in WindowKinds, strategy \in Strategies, risk_tolerance \in RiskLevels,
                 active_indices \in {ActiveIndices(n) : n \in 1..MaxActive}}
  /\ Len(call.kinds) = Len(call.active_indices)

calculate_target_weights ==
  /\ call.fn = "_calculate_target_weights"
  /\ ~call.done
  /\ \E r \in {CalculateTargetWeights(call.returns, call.strategy, call.risk_tolerance,
                                        call.active_indices, MaxActive)} :
       call' = [call EXCEPT !.done = TRUE, !.raised = r.raised, !.result = r.full_weights]
  /\ UNCHANGED service

NextWeights == calculate_target_weights

SpecWeights == InitWeights /\ [][NextWeights]_vars

\* ---- _equal_risk_contribution called on its own, one pass of its loop at
\* a time
VolLevels == {0, 10, 20, 40}      \* volatilities of the assets, in percent

\* the correlation of every pair of assets: -1/2, 0 or 1/2
Correlations == {0 - 1, 0, 1}

\* the covariance matrix of assets with volatilities vols (percent) and
\* pairwise correlation corr / 2
CovMatrix(vols, corr) ==
  Vec([i \in 1..Len(vols) |->
    Vec([j \in 1..Len(vols) |->
      IF i = j THEN FMul(Percent(vols[i]), Percent(vols[i]))
      ELSE FMul(FRatio(corr, 2), FMul(Percent(vols[i]), Percent(vols[j])))])])

\* lines 526-531: n, the equal weights and the all-zero return
InitERC ==
  /\ ServiceInit
  /\ call \in {[fn |-> "_equal_risk_contribution", vols |-> vols, corr |-> corr,
                cov_matrix |-> CovMatrix(vols, corr), passes |-> 0,
                weights |-> EqualWeights(Len(vols)),
                returned |-> AllZero(CovMatrix(vols, corr))] :
                 vols \in UNION {[1..n -> VolLevels] : n \in 2..MaxActive},
                 corr \in Correlations}

\* one pass of `for _ in range(100)`; after the last the function returns
erc_pass ==
  /\ call.fn = "_equal_risk_contribution"
  /\ ~call.returned
  /\ call.passes < ERCIterations
  /\ \E r \in {ERCStep(call.cov_matrix, call.weights)} :
       call' = [call EXCEPT !.passes = call.passes + 1,
                            !.weights = r.weights,
                            !.returned = r.returned \/ call.passes + 1 = ERCIterations]
  /\ UNCHANGED service

NextERC == erc_pass

SpecERC == InitERC /\ [][NextERC]_vars

InitSoftmax ==
  /\ ServiceInit
  /\ call \in {[fn |-> "forward", raw_weights |-> r, mask |-> m, done |-> FALSE, result |-> <<>>] :
                 r \in [1..NumPositions -> RawLogits], m \in [1..NumPositions -> {0, 1}]}

masked_softmax ==
  /\ call.fn = "forward"
  /\ ~call.done
  /\ call' = [call EXCEPT !.done = TRUE,
                          !.result = MaskedSoftmax(call.raw_weights, call.mask)]
  /\ UNCHANGED service

NextSoftmax == masked_softmax

SpecSoftmax == InitSoftmax /\ [][NextSoftmax]_vars

\* ---- the risk engine: RiskEngineWrapper and the /calculate-risk endpoint
\* (src/risk_engine/python).  An asset is its weight, an integer number of
\* 1e-7; a correlation is an integer number of tenths.
MaxAssets == 2        \* the longest asset list of a request

WeightOne == 10000000     \* the weight 1.0
SumTolerance == 10        \* 1e-6
CorrOne == 10             \* the correlation 1.0

\* weights the validators of PortfolioAsset and AssetInput admit (0 to 1):
\* 0, 5e-7, 2e-6, 0.499998, 0.4999995, 0.5 and 1
WeightChoices == {0, 5, 20, 4999980, 4999995, 5000000, 10000000}

\* sum(asset.weight for asset in assets)
RECURSIVE SumWeights(_)
SumWeights(assets) ==
  IF assets = <<>> THEN 0 ELSE Head(assets) + SumWeights(Tail(assets))

\* abs(total_weight - 1.0)
OffOne(total_weight) ==
  IF total_weight < WeightOne THEN WeightOne - total_weight ELSE total_weight - WeightOne

\* validate_portfolio: the message of the ValueError it raises, "" when it
\* returns
ValidatePortfolio_OnlyEmpty(assets) ==
  IF assets = <<>> THEN "Portfolio cannot be empty" ELSE ""

ValidatePortfolio(assets) ==
  IF assets = <<>> THEN "Portfolio cannot be empty"
  ELSE IF OffOne(SumWeights(assets)) > SumTolerance
       THEN "Portfolio weights must sum to 1.0"
       ELSE ""

\* create_identity_correlation_matrix
IdentityMatrix(size) ==
  [i \in 1..size |-> [j \in 1..size |-> IF i = j THEN CorrOne ELSE 0]]

\* calculate_risk_metrics; engine_ok says whether the native engine, once
\* invoked, returns (it is compiled code outside this module: any exception
\* of it is re-raised as RuntimeError)
CalculateRiskMetrics(assets, correlation_matrix, engine_ok) ==
  LET n == Len(assets)
      matrix == IF correlation_matrix = None THEN IdentityMatrix(n)
                ELSE correlation_matrix.rows
  IN IF ValidatePortfolio(assets) # ""
     THEN [raised |-> "ValueError", detail |-> ValidatePortfolio(assets),
           engine_invoked |-> FALSE]
     ELSE IF Len(matrix) # n \/ Len(matrix[1]) # n
     THEN [raised |-> "ValueError",
           detail |-> "Correlation matrix dimensions must match number of assets",
           engine_invoked |-> FALSE]
     ELSE IF engine_ok
     THEN [raised |-> "", detail |-> "", engine_invoked |-> TRUE]
     ELSE [raised |-> "RuntimeError", detail |-> "Risk calculation failed",
           engine_invoked |-> TRUE]

\* RiskCalculationRequest.validate_assets: the message of its ValueError
ValidateAssets(v) ==
  IF Len(v) = 0 THEN "At least one asset is required"
  ELSE IF Len(v) > 100 THEN "Maximum 100 assets allowed"
  ELSE IF OffOne(SumWeights(v)) > SumTolerance THEN "Asset weights must sum to 1.0"
  ELSE ""

\* the first outcome of f[1], f[2], ... that is not ""
FirstOutcome(f) ==
  IF \A k \in DOMAIN f : f[k] = "" THEN ""
  ELSE f[CHOOSE k \in DOMAIN f : f[k] # "" /\ \A l \in 1..(k - 1) : f[l] = ""]

\* RiskCalculationRequest.validate_correlation_matrix for n assets: the
\* exception that leaves it; v[j][i] of a short row j is an IndexError
ValidateCorrelationMatrix(v, n) ==
  IF Len(v) # n THEN "ValueError"
  ELSE FirstOutcome([i \in 1..n |->
         IF Len(v[i]) # n THEN "ValueError"
         ELSE IF v[i][i] # CorrOne THEN "ValueError"
         ELSE FirstOutcome([j \in 1..n |->
                IF i > Len(v[j]) THEN "IndexError"
                ELSE IF v[i][j] # v[j][i] THEN "ValueError"
                ELSE IF v[i][j] > CorrOne \/ v[i][j] < 0 - CorrOne THEN "ValueError"
                ELSE ""])])

\* POST /calculate-risk: the request model is validated first (a ValueError
\* of a validator is a 422, any other exception a 500; with invalid assets
\* the matrix validator sees no assets), then the handler runs
CalculateRisk(assets, correlation_matrix, engine_ok) ==
  LET assets_error == ValidateAssets(assets)
      n == IF assets_error = "" THEN Len(assets) ELSE 0
      matrix_error == IF correlation_matrix = None THEN ""
                      ELSE ValidateCorrelationMatrix(correlation_matrix.rows, n)
      r == CalculateRiskMetrics(assets, correlation_matrix, engine_ok)
  IN IF matrix_error = "IndexError" THEN [status_code |-> 500, engine_invoked |-> FALSE]
     ELSE IF assets_error # "" \/ matrix_error # ""
     THEN [status_code |-> 422, engine_invoked |-> FALSE]
     ELSE IF r.raised = "ValueError"
     THEN [status_code |-> 400, engine_invoked |-> r.engine_invoked]
     ELSE IF r.raised # ""
     THEN [status_code |-> 500, engine_invoked |-> r.engine_invoked]
     ELSE [status_code |-> 200, engine_invoked |-> r.engine_invoked]

\* the matrices of a request: rows of any lengths, filled as the identity,
\* with 0.5 off the diagonal, with 0.5 above the diagonal only, with 2.0 off
\* the diagonal, or with zeros
MatrixKinds == {"identity", "half", "skew", "wide", "zero"}

MatrixOf(lengths, kind) ==
  [i \in 1..Len(lengths) |-> [j \in 1..lengths[i] |->
     IF kind = "zero" THEN 0
     ELSE IF i = j THEN CorrOne
     ELSE IF kind = "identity" THEN 0
     ELSE IF kind = "half" THEN 5
     ELSE IF kind = "skew" THEN (IF i < j THEN 5 ELSE 0)
     ELSE 20]]

CorrelationMatrices ==
  {None} \cup
  {[rows |-> MatrixOf(lengths, kind)] :
     lengths \in UNION {[1..rows -> 0..(MaxAssets + 1)] : rows \in 0..(MaxAssets + 1)},
     kind \in MatrixKinds}

\* a list of n assets whose weights sum to one
ValidAssets(n) ==
  [i \in 1..n |-> IF n = 1 THEN WeightOne ELSE IF i <= 2 THEN 5000000 ELSE 0]

\* every asset list without a matrix, and every matrix with a list of each
\* length that validate_portfolio accepts
RiskInputs ==
  ((UNION {[1..n -> WeightChoices] : n \in 0..MaxAssets}) \X {None}) \cup
  ({ValidAssets(n) : n \in 0..MaxAssets} \X CorrelationMatrices)

InitRisk ==
  /\ ServiceInit
  /\ call \in {[fn |-> fn, assets |-> input[1], correlation_matrix |-> input[2],
                done |-> FALSE, raised |-> "", engine_invoked |-> FALSE,
                status_code |-> 0] :
                 fn \in {"validate_portfolio", "calculate_risk_metrics", "calculate_risk"},
                 input \in RiskInputs}

validate_portfolio ==
  /\ call.fn = "validate_portfolio"
  /\ ~call.done
  /\ call' = [call EXCEPT !.done = TRUE,
                          !.raised = IF ValidatePortfolio(call.assets) # ""
                                     THEN "ValueError" ELSE ""]
  /\ UNCHANGED service

calculate_risk_metrics ==
  /\ call.fn = "calculate_risk_metrics"
  /\ ~call.done
  /\ \E engine_ok \in BOOLEAN :
       \E r \in {CalculateRiskMetrics(call.assets, call.correlation_matrix, engine_ok)} :
         call' = [call EXCEPT !.done = TRUE, !.raised = r.raised,
                              !.engine_invoked = r.engine_invoked]
  /\ UNCHANGED service

calculate_risk ==
  /\ call.fn = "calculate_risk"
  /\ ~call.done
  /\ \E engine_ok \in BOOLEAN :
       \E r \in {CalculateRisk(call.assets, call.correlation_matrix, engine_ok)} :
         call' = [call EXCEPT !.done = TRUE, !.status_code = r.status_code,
                              !.engine_invoked = r.engine_invoked]
  /\ UNCHANGED service

NextRisk == validate_portfolio \/ calculate_risk_metrics \/ calculate_risk

SpecRisk == InitRisk /\ [][NextRisk]_vars

\* ---- PortfolioDataset.__init__ (309-330) and the windows __getitem__ cuts
MaxWindow == 2        \* window_size is 1..MaxWindow
MaxReads == 2         \* reads of a training-mode dataset

\* lines 324-330 for the dates of each ticker (returns and features, line
\* 314): aligned_dates and valid_start_indices, or the ValueError raised
DatasetInit_AllowsEqual(ticker_dates, window_size) ==
  LET aligned_dates == Sorted({d \in 1..MaxDate : \A t \in DOMAIN ticker_dates : d \in ticker_dates[t]})
  IN IF Len(aligned_dates) < window_size
     THEN [raised |-> TRUE, aligned_dates |-> aligned_dates, valid_start_indices |-> <<>>]
     ELSE [raised |-> FALSE, aligned_dates |-> aligned_dates,
           valid_start_indices |-> [k \in 1..(Len(aligned_dates) - window_size) |-> k - 1]]

DatasetInit(ticker_dates, window_size) ==
  LET aligned_dates == Sorted({d \in 1..MaxDate : \A t \in DOMAIN ticker_dates : d \in ticker_dates[t]})
  IN IF Len(aligned_dates) <= window_size
     THEN [raised |-> TRUE, aligned_dates |-> aligned_dates, valid_start_indices |-> <<>>]
     ELSE [raised |-> FALSE, aligned_dates |-> aligned_dates,
           valid_start_indices |-> [k \in 1..(Len(aligned_dates) - window_size) |-> k - 1]]

\* aligned_dates[start_idx:end_idx] (365-366); a slice stops at the end of
\* the list
WindowDates(aligned_dates, start_idx, window_size) ==
  SubSeq(aligned_dates, start_idx + 1,
         IF start_idx + window_size < Len(aligned_dates)
         THEN start_idx + window_size ELSE Len(aligned_dates))

\* a dataset of two tickers about to be constructed
InitWindows ==
  /\ ServiceInit
  /\ call \in {[fn |-> "PortfolioDataset", name |-> name, ticker_dates |-> ticker_dates,
                window_size |-> window_size, constructed |-> "no",
                aligned_dates |-> <<>>, valid_start_indices |-> <<>>, windows |-> <<>>] :
                 name \in DatasetNames,
                 ticker_dates \in [1..2 -> SUBSET (1..MaxDate)],
                 window_size \in 1..MaxWindow}

dataset_init ==
  /\ call.fn = "PortfolioDataset"
  /\ call.constructed = "no"
  /\ \E r \in {DatasetInit(call.ticker_dates, call.window_size)} :
       call' = [call EXCEPT !.constructed = IF r.raised THEN "ValueError" ELSE "yes",
                            !.aligned_dates = r.aligned_dates,
                            !.valid_start_indices = r.valid_start_indices]
  /\ UNCHANGED service

\* the next read of the dataset: __getitem__(idx) with idx = the number of
\* reads so far, idx < __len__()
dataset_getitem ==
  /\ call.fn = "PortfolioDataset"
  /\ call.constructed = "yes"
  /\ Len(call.windows) < DatasetLen(Datasets[call.name], Len(call.valid_start_indices))
  /\ Datasets[call.name].training => Len(call.windows) < MaxReads
  /\ \E start_idx \in IF Datasets[call.name].training
                      THEN Range(call.valid_start_indices)
                      ELSE {call.valid_start_indices[Len(call.windows) + 1]} :
       call' = [call EXCEPT !.windows = Append(call.windows,
                  [start_idx |-> start_idx,
                   window_dates |-> WindowDates(call.aligned_dates, start_idx, call.window_size)])]
  /\ UNCHANGED service

NextWindows == dataset_init \/ dataset_getitem

SpecWindows == InitWindows /\ [][NextWindows]_vars

\* ---- __getitem__ of a training-mode dataset, with the sample it returns
\* the return series of the dataset's tickers: no move, gains, a wide swing,
\* a NaN on the first day
SampleKinds == {1, 2, 5, 6}

\* np.random.choice(num_assets, num_active, replace=False): num_active
\* distinct positions in any order (positions count from 1 here)
Choices(num_assets, num_active) ==
  {c \in [1..num_active -> 1..num_assets] : \A j, k \in 1..num_active : c[j] = c[k] => j = k}

\* lines 368-411: the sample for the choices drawn; the returns of the
\* window are the series of the tickers
GetItemSample_MaskFirst(kinds, active_indices, strategy, risk_tolerance) ==
  With(CalculateTargetWeights(
         Window([j \in 1..Len(active_indices) |-> kinds[active_indices[j]]]),
         strategy, risk_tolerance, active_indices, Len(kinds)), LAMBDA target :
    [raised |-> target.raised,
     mask |-> [i \in 1..Len(kinds) |-> IF i <= Len(active_indices) THEN 1 ELSE 0],
     strategy |-> [c \in 1..3 |-> IF c = strategy + 1 THEN 1 ELSE 0],
     risk_tolerance |-> FRatio(risk_tolerance, 10),
     target_weights |-> target.full_weights])

GetItemSample(kinds, active_indices, strategy, risk_tolerance) ==
  With(CalculateTargetWeights(
         Window([j \in 1..Len(active_indices) |-> kinds[active_indices[j]]]),
         strategy, risk_tolerance, active_indices, Len(kinds)), LAMBDA target :
    [raised |-> target.raised,
     mask |-> [i \in 1..Len(kinds) |-> IF Contains(active_indices, i) THEN 1 ELSE 0],
     strategy |-> [c \in 1..3 |-> IF c = strategy + 1 THEN 1 ELSE 0],
     risk_tolerance |-> FRatio(risk_tolerance, 10),
     target_weights |-> target.full_weights])

\* a training-mode dataset of 2 or 3 tickers, listed by ascending kind
InitSample ==
  /\ ServiceInit
  /\ call \in {[fn |-> "sample", kinds |-> kinds, done |-> FALSE, sample |-> None] :
                 kinds \in UNION {{k \in [1..n -> SampleKinds] :
                                     \A j \in 1..(n - 1) : k[j] <= k[j + 1]} :
                                   n \in DatasetWidths}}

\* lines 339-351 draw the choices, the rest of __getitem__ builds the sample
getitem_training ==
  /\ call.fn = "sample"
  /\ ~call.done
  /\ \E num_active \in 2..Len(call.kinds) :
       \E active_indices \in Choices(Len(call.kinds), num_active) :
         \E strategy \in Strategies, risk_tolerance \in RiskLevels :
           \E r \in {GetItemSample(call.kinds, active_indices, strategy, risk_tolerance)} :
             call' = [call EXCEPT !.done = TRUE, !.sample = r]
  /\ UNCHANGED service

NextSample == getitem_training

SpecSample == InitSample /\ [][NextSample]_vars

\* ================================================================== claims

NotTrainedDetail == "Model not trained yet. Please train the model first."

Failed == training_status \notin {"not_started", "training", "completed"}

\* training runs accepted and not yet finished: tasks waiting to start plus
\* the one running
UnfinishedRuns == Len(background_tasks) + (IF pc = "idle" THEN 0 ELSE 1)

\* C1: at most one training run is accepted and unfinished at any time; a
\* /train arriving while an accepted run has not finished is rejected, so two
\* runs are never both scheduled.
C1_AtMostOneUnfinishedRun == UnfinishedRuns <= 1

\* C2: when a training run has failed, the stored model, the stored optimizer
\* and the stored returns/features data are exactly what they were before the
\* run started (and the status reports the failure).
C2_FailedRunLeavesStateUntouched ==
  (pc = "idle" /\ Failed) =>
    <<global_model, global_optimizer, global_data_tuple>> = at_start

\* a predict request can execute: the loop is free and both guards pass
PredictCanExecute == pc = "idle" /\ ~ModelNotTrained /\ global_data_tuple # None

\* C3: whenever a predict request can execute, the model, the optimizer and
\* the data it reads come from one and the same training run.
C3_PredictReadsOneRun ==
  PredictCanExecute =>
    /\ global_optimizer.model = global_model
    /\ global_data_tuple.run = global_model.run

\* C4: a predict issued after the universe was changed, while the model in
\* place is still the one built for the previous universe, is refused as not
\* trained.
C4_UniverseChangeInvalidatesModel ==
  (response.op = "predict" /\ global_model # None
     /\ global_model.universe # global_top_stocks) =>
       response.detail = NotTrainedDetail

C6_UnknownTickerIsCallerError ==
  (response.op = "predict" /\ PredictCanExecute
     /\ \E t \in Range(response.tickers) : ~Contains(global_top_stocks, t)) =>
       /\ response.status = 400
       /\ response.portfolio = <<>>

\* C7: for the trained model in place, the ticker at position i of the
\* universe it was built for is the ticker of column i of its training
\* samples, its output width is the number of those columns, and a served
\* predict fills column i of the inference window with that same ticker.
C7_IndexAssignmentFixed ==
  global_model # None =>
    /\ global_model.columns = global_model.universe
    /\ global_model.num_assets = Len(global_model.columns)
    /\ (response.op = "predict" /\ response.status = 200) =>
         global_top_stocks = global_model.columns

\* C8: the mask predict feeds to the model has one entry per universe ticker,
\* 1 exactly at the universe positions of the requested tickers.
C8_MaskFollowsUniverse ==
  (response.op = "predict" /\ response.mask # <<>>) =>
    response.mask = binary_mask(response.tickers)

\* ---- early stopping, stated on the history of validation losses

\* the lowest validation loss among the first k epochs, Inf when none is finite
RECURSIVE BestOf(_, _)
BestOf(losses, k) ==
  IF k = 0 THEN Inf
  ELSE LET b == BestOf(losses, k - 1)
       IN  IF FloatLess(losses[k], b) THEN losses[k] ELSE b

\* epoch i strictly improved on the best validation loss so far
Improved(losses, i) == FloatLess(losses[i], BestOf(losses, i - 1))

\* the number of epochs at the end of the history without an improvement
Streak(losses) ==
  Cardinality({i \in 1..Len(losses) : \A j \in i..Len(losses) : ~Improved(losses, j)})

InTrain == pc \in {"epoch", "load", "store"}

NeverImprovedAfterFirst == \A i \in 2..Len(val_losses) : ~Improved(val_losses, i)

\* C9 as stated: with a validation set, when the validation loss never
\* improves after epoch 1, no epoch later than 1 + patience is run.
C9_StopsWithinPatience ==
  (InTrain /\ val_loader /\ NeverImprovedAfterFirst) =>
    epoch <= 1 + early_stopping_patience

EffectivePatience == IF early_stopping_patience >= 1 THEN early_stopping_patience ELSE 1

\* C9 amended: the same with patience read as max(patience, 1): the loop goes
\* on exactly while fewer than max(patience, 1) epochs in a row have passed
\* without improvement and epochs remain, so when the loss never improves
\* after epoch 1 no epoch later than 1 + max(patience, 1) is run.
C9_StopsWithinEffectivePatience ==
  (InTrain /\ val_loader) =>
    /\ epoch = Len(val_losses)
    /\ NeverImprovedAfterFirst => epoch <= 1 + EffectivePatience
    /\ pc = "epoch" => Streak(val_losses) < EffectivePatience
    /\ pc # "epoch" => (epoch >= num_epochs \/ Streak(val_losses) = EffectivePatience)

\* C9 witness: the loop was stopped early, patience epochs after an improving
\* epoch 1, with epochs remaining.
C9_Witness ==
  /\ pc = "load"
  /\ val_loader
  /\ early_stopping_patience >= 2
  /\ Len(val_losses) >= 2
  /\ Improved(val_losses, 1)
  /\ NeverImprovedAfterFirst
  /\ epoch = 1 + early_stopping_patience
  /\ epoch < num_epochs

\* the earliest epoch with the lowest validation loss of the history
IsBestEpoch(losses, e) ==
  /\ e \in 1..Len(losses)
  /\ losses[e] # NaN
  /\ \A j \in 1..Len(losses) : ~FloatLess(losses[j], losses[e])
  /\ \A j \in 1..(e - 1) : losses[j] # losses[e]

\* C10: whenever train, called with a validation set, has returned, the
\* model's parameters are those of the epoch of this run with the lowest
\* validation loss, the earliest on ties.
C10_ReturnsBestEpochOfThisRun ==
  (pc = "store" /\ val_loader) =>
    \E e \in 1..Len(val_losses) :
      /\ IsBestEpoch(val_losses, e)
      /\ model.params = [run |-> model.run, epoch |-> e]

\* ---- masked softmax

\* the tolerance of `sum(w) ~ 1` and `w[i] ~ 0`: 1e-4
SoftmaxTolerance == FRatio(1, 10000)

SoftmaxDone == call.fn = "forward" /\ call.done

SumsToOne == FNear(FSum(call.result), FOne, SoftmaxTolerance)

ZeroWhereMasked ==
  \A i \in 1..NumPositions : call.mask[i] = 0 => FLeq(call.result[i], SoftmaxTolerance)

\* C11 as stated: for every mask and any raw logits the masked softmax sums
\* to 1 and is 0 within the tolerance wherever the mask bit is 0.
C11_MaskedSoftmaxAllMasks == SoftmaxDone => (SumsToOne /\ ZeroWhereMasked)

\* some active position carries an ordinary logit
OrdinaryActive ==
  \E i \in 1..NumPositions : call.mask[i] = 1 /\ call.raw_weights[i] # ExtremeLogit

\* C11 amended: the output sums to 1 for every mask; it is 0 wherever the
\* mask bit is 0 provided some active position has a logit above the
\* penalty's reach; for the all-zero mask it is the same weight everywhere.
C11_MaskedSoftmaxActiveMasks ==
  SoftmaxDone =>
    /\ SumsToOne
    /\ OrdinaryActive => ZeroWhereMasked
    /\ (\A i \in 1..NumPositions : call.mask[i] = 0) =>
         \A i \in 1..NumPositions : call.result[i] = call.result[1] /\ call.result[i][1] > 0

\* C11 witness: a mask with active and inactive positions, unequal ordinary
\* logits on the active ones, every active position with a positive weight.
C11_Witness ==
  /\ SoftmaxDone
  /\ call.mask = <<1, 0, 1>>
  /\ call.raw_weights[1] = FInt(1)
  /\ call.raw_weights[3] = FInt(0)
  /\ FLess(call.result[3], call.result[1])
  /\ FLess(FZero, call.result[3])
  /\ call.result[2] = FZero

\* ---- the target weight synthesizer

WeightsDone == call.fn = "_calculate_target_weights" /\ call.done

NumActive == Len(call.active_indices)

\* the weights of the active assets, in the order of active_indices
ActiveWeights == Vec([j \in 1..NumActive |-> call.result[call.active_indices[j]]])

\* the tolerance of a sum of weights: a few roundings of the model's floats
WeightTolerance == FRatio(1, 1000)

\* the active asset j has the same return on every valid day
ZeroVariance(j) ==
  \A k \in 1..Len(ValidRows(call.returns)) :
    ValidRows(call.returns)[k][j] = ValidRows(call.returns)[1][j]

\* C12: for each strategy, every risk tolerance and every window over 2 or
\* more active assets, zero-variance assets included, the synthesizer
\* returns, and the active weights are non-negative and sum to 1.
C12_WeightsOnSimplex ==
  (WeightsDone /\ NumActive >= 2) =>
    /\ ~call.raised
    /\ \A j \in 1..NumActive : ActiveWeights[j][1] >= 0
    /\ FNear(FSum(ActiveWeights), FOne, WeightTolerance)

\* C12 witness: Equal Risk Contribution at risk tolerance 10 on a window with
\* a zero-variance asset and two moving ones, with unequal weights.
C12_Witness ==
  /\ WeightsDone
  /\ call.strategy = 2
  /\ call.risk_tolerance = 10
  /\ NumActive = 3
  /\ ZeroVariance(1)
  /\ ~ZeroVariance(2)
  /\ Len(ValidRows(call.returns)) >= 2
  /\ ActiveWeights[2] # ActiveWeights[3]
  /\ FNear(FSum(ActiveWeights), FOne, WeightTolerance)

\* C13: with exactly one active asset and at least 2 valid rows, the
\* synthesizer returns, for every strategy and risk tolerance, and gives the
\* asset the weight 1.0.
C13_SingleAssetFullWeight ==
  (WeightsDone /\ NumActive = 1 /\ Len(ValidRows(call.returns)) >= 2) =>
    /\ ~call.raised
    /\ ActiveWeights = <<FOne>>

\* the valid rows of the window, the mean return and the sample variance and
\* volatility of the active asset j over them
ValidWindow == ValidRows(call.returns)

MeanOf(j) == MeanReturns(ValidWindow, NumActive)[j]

VarianceOf(j) == Cov(ValidWindow, NumActive).value[j][j]

VolOf(j) == FSqrt(VarianceOf(j))

\* the synthesizer was called with the given strategy as __getitem__ calls
\* it, on two or more active assets, with two or more valid rows in the
\* window, and the call is over
Synthesized(strategy) ==
  /\ WeightsDone
  /\ call.strategy = strategy
  /\ NumActive >= 2
  /\ Len(ValidWindow) >= 2

\* mean / vol of the active asset j, clipped at zero
ClippedSharpe(j) ==
  IF FLess(FZero, MeanOf(j)) THEN FDiv(MeanOf(j), VolOf(j)) ELSE FZero

InverseVolatility ==
  IF \E j \in 1..NumActive : FLeq(VolOf(j), FZero) THEN EqualWeights(NumActive)
  ELSE LET total == FSum(Vec([j \in 1..NumActive |-> FDiv(FOne, VolOf(j))]))
       IN  Vec([j \in 1..NumActive |-> FDiv(FDiv(FOne, VolOf(j)), total)])

\* the sum of the distances between the entries of the weights v and w
Distance(v, w) == FSum(Vec([j \in 1..Len(v) |-> FAbs(FSub(v[j], w[j]))]))

\* the active assets are two, with sample volatilities 0.1 and 0.4
VolsTenForty ==
  /\ NumActive = 2
  /\ FNear(VolOf(1), Percent(10), WeightTolerance)
  /\ FNear(VolOf(2), Percent(40), WeightTolerance)

ERCReturned == call.fn = "_equal_risk_contribution" /\ call.returned

\* "approximately (1/3, 2/3)": within 0.02 of it
ERCTolerance == FRatio(2, 100)

\* C14: started at equal weights on the diagonal covariance of volatilities
\* (0.2, 0.1), the solver returns after its 100 passes weights within 0.02
\* of (1/3, 2/3), the inverse-volatility proportions.
C14_InverseVolatilityOnDiagonal ==
  (ERCReturned /\ call.vols = <<20, 10>> /\ call.corr = 0) =>
    /\ call.passes = ERCIterations
    /\ FNear(call.weights[1], FRatio(1, 3), ERCTolerance)
    /\ FNear(call.weights[2], FRatio(2, 3), ERCTolerance)

\* ---- alignment

AlignDone == call.fn = "align_data_for_multiple_assets" /\ call.done

\* the dates present in every input series
InAllSeries ==
  {d \in 1..MaxDate : \A t \in DOMAIN call.assets_data : d \in Range(call.assets_data[t])}

Ascending(index) == \A i \in 1..(Len(index) - 1) : index[i] < index[i + 1]

\* C17: aligning one or more series returns for every asset exactly the
\* dates present in all series, ascending and the same for all assets; when
\* no date is present in all, the alignment raises and returns nothing.
C17_AlignmentIsIntersection ==
  (AlignDone /\ DOMAIN call.assets_data # {}) =>
    IF InAllSeries = {}
      THEN call.raised /\ call.result = <<>>
      ELSE /\ ~call.raised
           /\ DOMAIN call.result = DOMAIN call.assets_data
           /\ \A t \in DOMAIN call.result :
                /\ Range(call.result[t]) = InAllSeries
                /\ Ascending(call.result[t])
                /\ \A u \in DOMAIN call.result : call.result[u] = call.result[t]

\* C17 witness: three series that overlap in part, aligned to the two dates
\* they share.
C17_Witness ==
  /\ AlignDone
  /\ DOMAIN call.assets_data = AlignTickers
  /\ call.assets_data["AAPL"] = <<1, 2, 3>>
  /\ call.assets_data["MSFT"] = <<2, 3>>
  /\ call.assets_data["AMZN"] = <<1, 2, 3>>
  /\ call.result["AAPL"] = <<2, 3>>

\* ---- datasets

TwoPasses(name) == call.fn = "__getitem__" /\ call.name = name /\ call.passes = 2

\* the sample evaluation mode gives for index idx
EvaluationSample ==
  [start_idx |-> call.idx, active_indices |-> 0..(call.num_assets - 1),
   strategy |-> 0, risk_tolerance |-> 5]

\* C18: sample k of the validation set and of the test set is the window at
\* the k-th valid start offset with every asset active, strategy Max-Sharpe
\* and risk tolerance 5, in both of two passes.
C18_EvaluationSamplesFixed ==
  (TwoPasses("val") \/ TwoPasses("test")) =>
    /\ call.samples[1] = EvaluationSample
    /\ call.samples[2] = EvaluationSample

\* ---- the data pipeline inside the training task

\* the tickers of the data tuple that have both a return and a feature series
ValidTickers(data_tuple) == data_tuple.returns_dict \cap data_tuple.features_dict

\* C19: prepare_data_pipeline either raises, leaving no loader and the data
\* tuple untouched, or returns a loader over at least 2 tickers that have
\* both series; it raises whenever fewer than 2 tickers were fetched.
C19_NeedsTwoValidTickers ==
  [][pc = "prepare" =>
       /\ pc' \in {"init", "except"}
       /\ pc' = "except" =>
            (exc' # "" /\ train_loader' = None /\ global_data_tuple' = global_data_tuple)
       /\ pc' = "init" =>
            (train_loader' # None /\ Cardinality(ValidTickers(global_data_tuple')) >= 2)
       /\ Cardinality(Range(global_top_stocks) \ Range(failed_tickers')) < 2 =>
            pc' = "except"]_vars

\* C19 witness: every fetch succeeded, one ticker lost its features, and the
\* pipeline raised on the single valid ticker that was left.
C19_Witness ==
  /\ pc = "except"
  /\ exc = "Need at least 2 valid tickers for portfolio optimization"
  /\ failed_tickers = <<>>
  /\ train_loader = None

\* C20: a training run of at least one epoch whose pipeline collected some
\* failing tickers and built its loaders on the others is not aborted by an
\* exception.
C20_PartialFailureNotAborted ==
  (failed_tickers # <<>> /\ train_loader # None /\ num_epochs > 0) => pc # "except"

\* ---- the mapping predict returns

Served == response.op = "predict" /\ response.status = 200

\* the sum of the values of a mapping
RECURSIVE SumOver(_, _)
SumOver(f, keys) ==
  IF keys = {} THEN 0
  ELSE LET k == CHOOSE x \in keys : TRUE IN f[k] + SumOver(f, keys \ {k})

\* the positions predict includes for the output `weights`
Included(weights) ==
  {i \in 1..Len(TOP_STOCKS) : response.mask[i] = 1 /\ weights[i] > InclusionThreshold}

\* C21: the mapping of a served predict holds a ticker exactly when its mask
\* bit is 1 and the weight the model predicted for it exceeds 0.001, with
\* that weight as its value; its keys are requested tickers and its values
\* sum to at most 1 (weights in thousandths).
C21_PortfolioKeepsMaskedAboveThreshold ==
  Served =>
    /\ \E weights \in ModelOutputs(response.mask) :
         /\ DOMAIN response.portfolio = {TOP_STOCKS[i] : i \in Included(weights)}
         /\ \A i \in Included(weights) : response.portfolio[TOP_STOCKS[i]] = weights[i]
    /\ DOMAIN response.portfolio \subseteq Range(response.tickers)
    /\ SumOver(response.portfolio, DOMAIN response.portfolio) <= 1000

\* C21 witness: a served predict that left out a requested ticker whose
\* predicted weight was not above the threshold.
C21_Witness ==
  /\ Served
  /\ DOMAIN response.portfolio # {}
  /\ \E t \in Range(response.tickers) : t \notin DOMAIN response.portfolio

\* ---- the training status as a state machine

Phase(status) ==
  IF status = "not_started" THEN "Idle"
  ELSE IF status = "training" THEN "Training"
  ELSE IF status = "completed" THEN "Ready"
  ELSE "Failed"

\* the moves of the status the claim lists
ListedMoves ==
  {<<"Idle", "Training">>, <<"Training", "Ready">>, <<"Training", "Failed">>,
   <<"Ready", "Training">>, <<"Failed", "Training">>}

\* the step is the end of the running task: its last statement or its handler
RunFinishes == pc \in {"store", "except"} /\ pc' = "idle"

\* the status is not taken out of Training except by the run finishing, and
\* the model slot is written only by a run that completes
TrainingHeldAndSlotGuarded ==
  /\ (training_status = "training" /\ training_status' # "training") => RunFinishes
  /\ global_model' # global_model => (RunFinishes /\ training_status' = "completed")

\* C22 as stated: every change of the status is one of the listed moves, the
\* status leaves Training only by the run finishing, and the model slot is
\* written only when a run completes.
C22_StatusMovesAsListed ==
  [][/\ Phase(training_status') # Phase(training_status) =>
          <<Phase(training_status), Phase(training_status')>> \in ListedMoves
     /\ TrainingHeldAndSlotGuarded]_vars

\* C22 amended: as above, with one more move: a successful
\* /set-universal-stocks takes a Ready or Failed status back to Idle.
C22_StatusMovesOrUniverseReset ==
  [][/\ Phase(training_status') # Phase(training_status) =>
          \/ <<Phase(training_status), Phase(training_status')>> \in ListedMoves
          \/ /\ Phase(training_status) \in {"Ready", "Failed"}
             /\ Phase(training_status') = "Idle"
             /\ response'.op = "set_universal_stocks"
             /\ response'.status = "success"
     /\ TrainingHeldAndSlotGuarded]_vars

\* C22 witness: a universe was set after a run completed, and the status is
\* back at not_started with that run's model still in the slot.
C22_Witness ==
  /\ response.op = "set_universal_stocks"
  /\ response.status = "success"
  /\ training_status = "not_started"
  /\ global_model # None

\* ---- the portfolio check of the risk engine

RiskCallDone(fn) == call.fn = fn /\ call.done

\* the list is empty or its weights are further than 1e-6 from summing to 1
BadPortfolio(assets) ==
  \/ Len(assets) = 0
  \/ SumOver(assets, DOMAIN assets) > WeightOne + SumTolerance
  \/ SumOver(assets, DOMAIN assets) < WeightOne - SumTolerance

\* C23: validate_portfolio raises ValueError exactly for the empty list and
\* the lists whose weights sum further than 1e-6 from 1.0;
\* calculate_risk_metrics raises it for them before the native engine is
\* invoked; /calculate-risk answers 422 to them.
C23_PortfolioValidated ==
  /\ RiskCallDone("validate_portfolio") =>
       ((call.raised = "ValueError") <=> BadPortfolio(call.assets))
  /\ (RiskCallDone("calculate_risk_metrics") /\ BadPortfolio(call.assets)) =>
       (call.raised = "ValueError" /\ ~call.engine_invoked)
  /\ (RiskCallDone("calculate_risk") /\ BadPortfolio(call.assets)) =>
       (call.status_code = 422 /\ ~call.engine_invoked)

C23_Witness ==
  /\ RiskCallDone("calculate_risk")
  /\ Len(call.assets) = 2
  /\ BadPortfolio(call.assets)
  /\ call.status_code = 422

\* ---- the shape of the correlation matrix

NbyN(rows, n) == Len(rows) = n /\ \A i \in 1..Len(rows) : Len(rows[i]) = n

\* C24: calculate_risk_metrics raises ValueError, without invoking the
\* native engine, for every supplied correlation matrix that is not n x n
\* for the n assets.
C24_MatrixMustBeSquare ==
  (/\ RiskCallDone("calculate_risk_metrics")
   /\ call.correlation_matrix # None
   /\ ~NbyN(call.correlation_matrix.rows, Len(call.assets)))
  => (call.raised = "ValueError" /\ ~call.engine_invoked)

\* ---- the windows of a dataset

Constructed == call.fn = "PortfolioDataset" /\ call.constructed = "yes"

\* L: the number of dates common to all tickers of the dataset
NumCommonDates ==
  Cardinality({d \in 1..MaxDate : \A t \in DOMAIN call.ticker_dates : d \in call.ticker_dates[t]})

\* C25: the valid start offsets of a constructed dataset are exactly the
\* offsets s with 0 <= s and s + W <= L; every window read has W dates;
\* evaluation mode visits the offsets in turn, each once.
C25_OffsetsLeaveAWindow ==
  Constructed =>
    /\ Range(call.valid_start_indices) =
         {s \in 0..NumCommonDates : s + call.window_size <= NumCommonDates}
    /\ \A k \in DOMAIN call.windows : Len(call.windows[k].window_dates) = call.window_size
    /\ ~Datasets[call.name].training =>
         \A k \in DOMAIN call.windows : call.windows[k].start_idx = k - 1

\* C27: a dataset is constructed only when more dates are common to all its
\* tickers than the window size; otherwise construction raises the
\* ValueError "Not enough data for window size" and nothing is read.
C27_NeedsMoreDatesThanWindow ==
  call.fn = "PortfolioDataset" =>
    /\ call.constructed = "yes" => NumCommonDates > call.window_size
    /\ call.constructed = "ValueError" =>
         (NumCommonDates <= call.window_size /\ call.windows = <<>>)
    /\ call.windows # <<>> => call.constructed = "yes"

\* C27 witness: construction failed with exactly as many common dates as the
\* window is long.
C27_Witness ==
  /\ call.fn = "PortfolioDataset"
  /\ call.constructed = "ValueError"
  /\ NumCommonDates = call.window_size

\* ---- the samples of training mode

Sampled == call.fn = "sample" /\ call.done

\* the positions of the sample whose mask bit is 1
MaskOn == {i \in DOMAIN call.sample.mask : call.sample.mask[i] = 1}

\* C26: a training-mode sample has between 2 and N ones in its mask, a
\* one-hot strategy over 3 categories, the risk scalar k/10 of an integer k
\* in 1..10, and target weights of width N that are 0 where the mask is 0
\* and sum to 1 over the positions where it is 1.
C26_TrainingSampleWellFormed ==
  Sampled =>
    /\ ~call.sample.raised
    /\ Len(call.sample.mask) = Len(call.kinds)
    /\ \A i \in DOMAIN call.sample.mask : call.sample.mask[i] \in {0, 1}
    /\ Cardinality(MaskOn) >= 2 /\ Cardinality(MaskOn) <= Len(call.kinds)
    /\ Len(call.sample.strategy) = 3
    /\ \E c \in 1..3 : call.sample.strategy = [d \in 1..3 |-> IF d = c THEN 1 ELSE 0]
    /\ \E k \in 1..10 : call.sample.risk_tolerance = FDiv(FInt(k), FInt(10))
    /\ Len(call.sample.target_weights) = Len(call.kinds)
    /\ \A i \in DOMAIN call.sample.target_weights :
         i \notin MaskOn => call.sample.target_weights[i] = FZero
    /\ FNear(FSum(Vec([j \in 1..Cardinality(MaskOn) |->
                call.sample.target_weights[Sorted(MaskOn)[j]]])), FOne, WeightTolerance)

\* C26 witness: a sample of a dataset of three tickers with two of them
\* active, the second position masked out, and unequal target weights.
C26_Witness ==
  /\ Sampled
  /\ call.sample.mask = <<1, 0, 1>>
  /\ call.sample.target_weights[1] # call.sample.target_weights[3]
  /\ call.sample.target_weights[1] # FZero

\* ---- the passes of the Equal Risk Contribution solver

ERCCall == call.fn = "_equal_risk_contribution"

\* weights.T @ cov_matrix @ weights of the weights the call holds
ERCVariance ==
  Dot(Vec([j \in 1..Len(call.weights) |-> Dot(call.weights, Column(call.cov_matrix, j))]),
      call.weights)

\* the weights a pass leaves when portfolio_vol > 1e-10: weight i times
\* target_risk / risk_contrib[i] if risk_contrib[i] > 1e-10 and times 1
\* otherwise, then divided by their sum
AdjustedAsClaimed(variance) ==
  With(FSqrt(variance), LAMBDA portfolio_vol :
  With(Vec([i \in 1..Len(call.weights) |->
         FMul(call.weights[i],
              FDiv(Dot(call.cov_matrix[i], call.weights), portfolio_vol))]), LAMBDA risk_contrib :
  With(FDiv(FSum(risk_contrib), FInt(Len(call.weights))), LAMBDA target_risk :
    Normalized(Vec([i \in 1..Len(call.weights) |->
      IF FLess(Tiny, risk_contrib[i])
      THEN FMul(call.weights[i], FDiv(target_risk, risk_contrib[i]))
      ELSE FMul(call.weights[i], FOne)])))))

\* what one pass does to the call
ERCPassAsClaimed ==
  (ERCCall /\ call'.passes = call.passes + 1) =>
    \E variance \in {ERCVariance} :
      IF variance[1] >= 0 /\ FLeq(FSqrt(variance), Tiny)
      THEN call'.returned /\ call'.weights = EqualWeights(Len(call.weights))
      ELSE variance[1] > 0 => call'.weights = AdjustedAsClaimed(variance)

\* the call after any number of passes
ERCBounded ==
  ERCCall =>
    /\ call.passes <= 100
    /\ call.passes = 100 => call.returned
    /\ (call.returned /\ call.passes < 100) => call.weights = EqualWeights(Len(call.vols))
    /\ AllZero(call.cov_matrix) => (call.returned /\ call.passes = 0)

\* C28: on a positive-semidefinite matrix the solver makes at most 100
\* passes and has returned after the 100th whatever the weights; it returns
\* equal weights at once for an all-zero matrix and in the pass that finds
\* the portfolio volatility <= 1e-10; a weight whose risk contribution is
\* <= 1e-10 is multiplied by 1; no pass raises.
C28_ERCTerminates == []ERCBounded /\ [][ERCPassAsClaimed]_vars

\* C28 witness: the solver returned equal weights before its 100th pass on a
\* matrix that is not all zero.
C28_Witness ==
  /\ ERCCall
  /\ call.returned
  /\ call.passes >= 1
  /\ call.passes < 100
  /\ ~AllZero(call.cov_matrix)

\* ---- the end of a training run

\* the task is between its first statement and its last
TaskRunning == pc \in {"prepare", "init", "epoch", "load", "store", "except"}

\* C29: the epoch loop of a run makes at most num_epochs passes, and a
\* status set to training is eventually completed or failed: it does not
\* stay at training forever, whatever the run raises.
C29_TrainingRunFinishes ==
  /\ [](TaskRunning => epoch <= num_epochs)
  /\ (training_status = "training") ~> (Phase(training_status) \in {"Ready", "Failed"})

\* C29 witness: a run that raised has ended with the status failed.
C29_Witness ==
  /\ pc = "idle"
  /\ run >= 1
  /\ Phase(training_status) = "Failed"

\* ---- the checkpoint train reloads

\* C30: whenever train, given a validation set, is about to reload
\* 'best_portfolio_model.pth' after its loop, the file was saved in this run
\* by this model (at one of its epochs), never left by another run.
C30_ReloadsOwnCheckpoint ==
  (pc = "load" /\ val_loader) =>
    /\ checkpoint_file # None
    /\ checkpoint_file.params.run = model.run
    /\ checkpoint_file.params.epoch \in 1..epoch
    /\ checkpoint_file.num_assets = model.num_assets

====
